---------------------------- MODULE Spec2Model ----------------------------
(***************************************************************************)
(* A model of the code analysis pipeline: CodeParser (js/parser.js),       *)
(* FlowchartGenerator and CodeAnalyzer (js/analyser.js), and of the        *)
(* analysis requests of the application controller CodeVisualizerApp.      *)
(*                                                                         *)
(* Text.  A source text is the sequence of its lines (code.split('\n')).   *)
(* A line is a record [ws, toks]: ws is the number of leading whitespace   *)
(* characters and toks the rest of the line as a sequence of tokens        *)
(* (line.trim()).  A token is a word (a maximal run of \w characters), a   *)
(* single blank " ", or a punctuation mark.  Two words are never adjacent  *)
(* (they would be one word).  A JavaScript object is a record, an absent   *)
(* property is an absent field, a string that the code scans is a          *)
(* sequence of tokens and a name is a string.                              *)
(***************************************************************************)
EXTENDS Integers, Sequences, FiniteSets, TLC

VARIABLES
    code,           \* the text handed to analyzeCode
    language,       \* the language handed to analyzeCode
    pc,             \* "ready" before a call, "returned" / "threw" after it
    analysisCache,  \* CodeAnalyzer.analysisCache: cache key -> object
    heap,           \* the analysis objects created so far, by identity
    returned,       \* identity of the object the last call returned (0: none)
    computed,       \* TRUE iff the last call ran the parser (no cache hit)
    firstSince,     \* history: <<code, language>> -> the object returned by
                    \* the first analyzeCode of these arguments since the
                    \* last clearCache (or since construction)
    timers,         \* the pending callbacks of analyzeCurrentCode, in the
                    \* order of their setTimeout calls
    currentAnalysis,\* CodeVisualizerApp.currentAnalysis: an identity, 0: null
    message,        \* the type of the last showMessage ("none" before any)
    lastRequest,    \* history: the (code, language) of the last request
                    \* that set a timer
    now             \* the time in ms since the construction of the app

appVars == <<timers, currentAnalysis, message, lastRequest, now>>
vars == <<code, language, pc, analysisCache, heap, returned, computed, firstSince,
          timers, currentAnalysis, message, lastRequest, now>>

-----------------------------------------------------------------------------
(* Tokens *)

Keywords == {"let", "const", "var", "function", "def", "if", "elif", "for", "in",
             "while", "return", "int", "public", "static", "do"}
Identifiers == {"x", "y", "foo", "i", "Aa", "BB", "eval", "Eval", "innerHTML",
                "1", "2"}
Words == Keywords \cup Identifiers
Puncts == {"(", ")", "=", ";", ":", ",", "#", "//", "/*", "&&", "||", "<", "{", "}",
           "."}
Blank == " "
Tokens == Words \cup Puncts \cup {Blank}

IsWord(t) == t \in Words

\* The token at position i of l, or "" past either end.
At(l, i) == IF i \in 1..Len(l) THEN l[i] ELSE ""

\* The first position >= i of l that holds no blank (Len(l)+1 if none): \s*
RECURSIVE SkipWs(_, _)
SkipWs(l, i) == IF At(l, i) = Blank THEN SkipWs(l, i + 1) ELSE i

\* The first position >= i of l that holds token t, or 0.
RECURSIVE Find(_, _, _)
Find(l, t, i) ==
    IF i > Len(l) THEN 0
    ELSE IF l[i] = t THEN i
    ELSE Find(l, t, i + 1)

\* l[a..b], empty when b < a.
Slice(l, a, b) == IF b < a THEN << >> ELSE SubSeq(l, a, b)

\* The last position <= i of l that holds no blank, not below lo - 1.
RECURSIVE BackWs(_, _, _)
BackWs(l, i, lo) == IF i >= lo /\ At(l, i) = Blank THEN BackWs(l, i - 1, lo) ELSE i

\* String.prototype.trim on a token sequence.
Trim(l) == Slice(l, SkipWs(l, 1), BackWs(l, Len(l), 1))

WellFormed(l) ==
    /\ \A k \in 1..Len(l) : l[k] \in Tokens
    /\ \A k \in 1..(Len(l) - 1) : ~(IsWord(l[k]) /\ IsWord(l[k + 1]))
    /\ (Len(l) > 0 => l[1] # Blank /\ l[Len(l)] # Blank)

-----------------------------------------------------------------------------
(* Regular expressions of js/parser.js, as matchers over a trimmed line.   *)
(* A match is [ok, g]: g maps the numbers of the capture groups that took  *)
(* part in the match to the text they captured.                            *)

NoMatch == [ok |-> FALSE, g |-> << >>]
Matched(groups) == [ok |-> TRUE, g |-> groups]

\* /^\s*(k1|k2|...)\s+(\w+)/
ReDecl(kws, l) ==
    LET w == SkipWs(l, 2)
    IN  IF At(l, 1) \in kws /\ At(l, 2) = Blank /\ IsWord(At(l, w))
        THEN Matched(1 :> l[1] @@ 2 :> l[w])
        ELSE NoMatch

\* /^\s*(\w+)\s*=/
ReAssign(l) ==
    IF IsWord(At(l, 1)) /\ At(l, SkipWs(l, 2)) = "="
    THEN Matched(1 :> l[1])
    ELSE NoMatch

\* /^\s*kw\s+(\w+)\s*\(/
ReKwFunction(kw, l) ==
    LET w == SkipWs(l, 2)
    IN  IF At(l, 1) = kw /\ At(l, 2) = Blank /\ IsWord(At(l, w))
           /\ At(l, SkipWs(l, w + 1)) = "("
        THEN Matched(1 :> l[w])
        ELSE NoMatch

\* /^\s*\w+\s+(\w+)\s*\(/
ReCppFunction(l) ==
    LET w == SkipWs(l, 2)
    IN  IF IsWord(At(l, 1)) /\ At(l, 2) = Blank /\ IsWord(At(l, w))
           /\ At(l, SkipWs(l, w + 1)) = "("
        THEN Matched(1 :> l[w])
        ELSE NoMatch

\* One way of matching the java function pattern: with or without the access
\* modifier, with or without "static".
JavaFunctionTry(l, useMod, useStatic) ==
    LET p1 == IF useMod THEN 2 ELSE 1
        p2 == SkipWs(l, p1)
        p3 == IF useStatic THEN p2 + 1 ELSE p2
        t  == SkipWs(l, p3)            \* the return type, \w+
        w  == SkipWs(l, t + 1)         \* the name, (\w+)
    IN  IF /\ (useMod => At(l, 1) \in {"public", "private", "protected"})
           /\ (useStatic => At(l, p2) = "static")
           /\ IsWord(At(l, t)) /\ At(l, t + 1) = Blank
           /\ IsWord(At(l, w)) /\ At(l, SkipWs(l, w + 1)) = "("
        THEN Matched((IF useMod THEN 1 :> l[1] ELSE << >>)
                     @@ (IF useStatic THEN 2 :> "static" ELSE << >>)
                     @@ 3 :> l[w])
        ELSE NoMatch

\* The first of four matches that succeeded, or the last.
FirstMatch(m1, m2, m3, m4) ==
    IF m1.ok THEN m1 ELSE IF m2.ok THEN m2 ELSE IF m3.ok THEN m3 ELSE m4

\* /^\s*(public|private|protected)?\s*(static)?\s*\w+\s+(\w+)\s*\(/ : the
\* optional groups are greedy, so a match that uses them is found first.
ReJavaFunction(l) ==
    FirstMatch(JavaFunctionTry(l, TRUE, TRUE), JavaFunctionTry(l, TRUE, FALSE),
               JavaFunctionTry(l, FALSE, TRUE), JavaFunctionTry(l, FALSE, FALSE))

\* /^\s*kw\s*\(/
ReKwParen(kw, l) ==
    IF At(l, 1) = kw /\ At(l, SkipWs(l, 2)) = "(" THEN Matched(<< >>) ELSE NoMatch

\* /^\s*kw\s+/
ReKwSpace(kw, l) ==
    IF At(l, 1) = kw /\ At(l, 2) = Blank THEN Matched(<< >>) ELSE NoMatch

\* /^\s*kw\b/ : a word token ends at a word boundary
ReKwBoundary(kw, l) ==
    IF At(l, 1) = kw THEN Matched(<< >>) ELSE NoMatch

\* /^\s*(t1|t2)/
ReStart(ts, l) ==
    IF At(l, 1) \in ts THEN Matched(1 :> l[1]) ELSE NoMatch

\* A pattern of the table is a record naming its regular expression.
Match(p, l) ==
    CASE p.re = "decl"     -> ReDecl(p.kws, l)
      [] p.re = "assign"   -> ReAssign(l)
      [] p.re = "kwfunc"   -> ReKwFunction(p.kw, l)
      [] p.re = "cppfunc"  -> ReCppFunction(l)
      [] p.re = "javafunc" -> ReJavaFunction(l)
      [] p.re = "kwparen"  -> ReKwParen(p.kw, l)
      [] p.re = "kwspace"  -> ReKwSpace(p.kw, l)
      [] p.re = "kwb"      -> ReKwBoundary(p.kw, l)
      [] p.re = "start"    -> ReStart(p.kws, l)

\* RegExp.prototype.test
Test(p, l) == Match(p, l).ok

\* match[a] || match[b]
GroupOr(m, a, b) ==
    IF a \in DOMAIN m.g THEN m.g[a]
    ELSE IF b \in DOMAIN m.g THEN m.g[b]
    ELSE "undefined"

-----------------------------------------------------------------------------
(* CodeParser.getLanguagePatterns *)

ParenKw(kw) == [re |-> "kwparen", kw |-> kw]
SpaceKw(kw) == [re |-> "kwspace", kw |-> kw]
ReturnPattern == [re |-> "kwb", kw |-> "return"]
SlashComment == [re |-> "start", kws |-> {"//", "/*"}]

\* The pattern table; the import, export, class and include patterns are
\* read by no method and are left out.
PatternTable ==
    [javascript |->
        [variable   |-> [re |-> "decl", kws |-> {"let", "const", "var"}],
         function   |-> [re |-> "kwfunc", kw |-> "function"],
         if         |-> ParenKw("if"),
         for        |-> ParenKw("for"),
         while      |-> ParenKw("while"),
         return     |-> ReturnPattern,
         assignment |-> [re |-> "assign"],
         comment    |-> SlashComment],
     python |->
        [variable   |-> [re |-> "assign"],
         function   |-> [re |-> "kwfunc", kw |-> "def"],
         if         |-> SpaceKw("if"),
         for        |-> SpaceKw("for"),
         while      |-> SpaceKw("while"),
         return     |-> ReturnPattern,
         comment    |-> [re |-> "start", kws |-> {"#"}]],
     java |->
        [variable   |-> [re |-> "decl",
                         kws |-> {"int", "float", "double", "String", "boolean", "char"}],
         function   |-> [re |-> "javafunc"],
         if         |-> ParenKw("if"),
         for        |-> ParenKw("for"),
         while      |-> ParenKw("while"),
         return     |-> ReturnPattern,
         comment    |-> SlashComment],
     cpp |->
        [variable   |-> [re |-> "decl",
                         kws |-> {"int", "float", "double", "string", "char", "bool"}],
         function   |-> [re |-> "cppfunc"],
         if         |-> ParenKw("if"),
         for        |-> ParenKw("for"),
         while      |-> ParenKw("while"),
         return     |-> ReturnPattern,
         comment    |-> SlashComment]]

\* Names every object inherits from Object.prototype: patterns[name] is then
\* an inherited member (a function, truthy) that has none of the pattern
\* properties.
InheritedNames == {"constructor", "toString", "valueOf", "hasOwnProperty"}
InheritedMember == << >>

\* patterns[language] || patterns.javascript
getLanguagePatterns(lang) ==
    IF lang \in DOMAIN PatternTable THEN PatternTable[lang]
    ELSE IF lang \in InheritedNames THEN InheritedMember
    ELSE PatternTable.javascript

Has(patterns, name) == name \in DOMAIN patterns

-----------------------------------------------------------------------------
(* CodeParser: the extraction helpers *)

\* The outcome of a method that raised a TypeError (a method call on an
\* undefined property).
Thrown == [threw |-> "TypeError"]
IsThrown(r) == "threw" \in DOMAIN r

Range(f) == {f[k] : k \in DOMAIN f}

\* String.prototype.split(',') followed by trim() of every part.
RECURSIVE SplitArgs(_)
SplitArgs(l) ==
    LET c == Find(l, ",", 1)
    IN  IF c = 0 THEN <<Trim(l)>>
        ELSE <<Trim(Slice(l, 1, c - 1))>> \o SplitArgs(Slice(l, c + 1, Len(l)))

\* The default of extractCondition, the string 'condition'.
DefaultCondition == <<"condition">>

extractCondition(lang, l) ==
    IF lang = "python"
    THEN \* /^\s*(if|while|elif)\s+(.*?):/
         LET c0    == SkipWs(l, 2)
             colon == Find(l, ":", c0)
         IN  IF At(l, 1) \in {"if", "while", "elif"} /\ At(l, 2) = Blank /\ colon # 0
             THEN Slice(l, c0, colon - 1)
             ELSE DefaultCondition
    ELSE \* /\((.*?)\)/
         LET open  == Find(l, "(", 1)
             close == IF open = 0 THEN 0 ELSE Find(l, ")", open + 1)
         IN  IF close # 0 THEN Slice(l, open + 1, close - 1) ELSE DefaultCondition

\* /for\s+(\w+)\s+in\s+(.*?):/ tried from position i on: the loop variable
\* of the leftmost match, or "" when there is none.
RECURSIVE PythonForVar(_, _)
PythonForVar(l, i) ==
    IF i > Len(l) THEN ""
    ELSE LET v == SkipWs(l, i + 1)
             n == SkipWs(l, v + 1)
         IN  IF /\ l[i] = "for" /\ At(l, i + 1) = Blank
                /\ IsWord(At(l, v)) /\ At(l, v + 1) = Blank
                /\ At(l, n) = "in" /\ At(l, n + 1) = Blank
                /\ Find(l, ":", SkipWs(l, n + 1)) # 0
             THEN l[v]
             ELSE PythonForVar(l, i + 1)

\* The first word of l at or after position i, or "" : /(\w+)/
RECURSIVE FirstWord(_, _)
FirstWord(l, i) ==
    IF i > Len(l) THEN ""
    ELSE IF IsWord(l[i]) THEN l[i]
    ELSE FirstWord(l, i + 1)

\* /for\s*\(\s*(.*?)\s*;\s*(.*?)\s*;\s*(.*?)\s*\)/ tried from position i on:
\* [ok, init] with init the first capture group of the leftmost match.
RECURSIVE CStyleFor(_, _)
CStyleFor(l, i) ==
    IF i > Len(l) THEN [ok |-> FALSE, init |-> << >>]
    ELSE LET open == SkipWs(l, i + 1)
             s1   == Find(l, ";", open + 1)
             s2   == IF s1 = 0 THEN 0 ELSE Find(l, ";", s1 + 1)
             cl   == IF s2 = 0 THEN 0 ELSE Find(l, ")", s2 + 1)
             c0   == SkipWs(l, open + 1)
         IN  IF l[i] = "for" /\ At(l, open) = "(" /\ cl # 0
             THEN [ok |-> TRUE, init |-> Slice(l, c0, BackWs(l, s1 - 1, c0))]
             ELSE CStyleFor(l, i + 1)

\* The loop variable when no header is recognised.
DefaultLoopInfo == [variable |-> "i", variables |-> <<"i">>]

LoopInfo(v) ==
    IF v # "" THEN [variable |-> v, variables |-> <<v>>] ELSE DefaultLoopInfo

CStyleLoopInfo(m) == IF m.ok THEN LoopInfo(FirstWord(m.init, 1)) ELSE DefaultLoopInfo

extractLoopInfo(lang, l) ==
    IF lang = "python"
    THEN LoopInfo(PythonForVar(l, 1))
    ELSE CStyleLoopInfo(CStyleFor(l, 1))

\* /(\w+)\s*\((.*?)\)/ tried from position i on: [ok, name, args] of the
\* leftmost match.
RECURSIVE CallMatch(_, _)
CallMatch(l, i) ==
    IF i > Len(l) THEN [ok |-> FALSE, name |-> "", args |-> << >>]
    ELSE LET open  == SkipWs(l, i + 1)
             close == Find(l, ")", open + 1)
         IN  IF IsWord(l[i]) /\ At(l, open) = "(" /\ close # 0
             THEN [ok |-> TRUE, name |-> l[i], args |-> Slice(l, open + 1, close - 1)]
             ELSE CallMatch(l, i + 1)

\* The value null.
Null == [null |-> TRUE]

\* extractFunctionCall, given the match of its regular expression.
FunctionCallOf(patterns, l, match) ==
    IF ~match.ok THEN Null
    ELSE IF ~Has(patterns, "function") THEN Thrown
    ELSE IF Test(patterns.function, l) THEN Null
    ELSE IF ~Has(patterns, "if") THEN Thrown
    ELSE IF Test(patterns.if, l) THEN Null
    ELSE [name |-> match.name,
          args |-> IF match.args # << >> THEN SplitArgs(match.args) ELSE << >>]

\* The call found in a line, Null, or Thrown.
extractFunctionCall(patterns, l) == FunctionCallOf(patterns, l, CallMatch(l, 1))

-----------------------------------------------------------------------------
(* CodeParser.analyzeLine, isComment, getIndentation, parseCode.  The      *)
(* description property of a statement, a display text made of its other   *)
(* properties, is left out.                                                *)

Base(type, l, lineNumber, indentLevel) ==
    [type |-> type, line |-> lineNumber, indent |-> indentLevel, code |-> l]

Named(base, variableName) ==
    base @@ [name |-> variableName, variables |-> <<variableName>>]

Assigned(base, variableName) ==
    base @@ [variable |-> variableName, variables |-> <<variableName>>]

Looping(base, loopInfo) ==
    base @@ [loopVar |-> loopInfo.variable, variables |-> loopInfo.variables]

\* A variant of the end of analyzeLine that tries the assignment rule before
\* the call rule.
CallAfterAssignment(patterns, l, lineNumber, indentLevel, functionCall) ==
    IF Has(patterns, "assignment") /\ Test(patterns.assignment, l)
       /\ ~Has(patterns, "variable")
    THEN Thrown
    ELSE IF Has(patterns, "assignment") /\ Test(patterns.assignment, l)
            /\ ~Test(patterns.variable, l)
    THEN Assigned(Base("assignment", l, lineNumber, indentLevel),
                  Match(patterns.assignment, l).g[1])
    ELSE IF IsThrown(functionCall)
    THEN Thrown
    ELSE IF functionCall # Null
    THEN Base("call", l, lineNumber, indentLevel) @@
         [function |-> functionCall.name, arguments |-> functionCall.args]
    ELSE Base("statement", l, lineNumber, indentLevel)

\* The end of analyzeLine, from the function call on.
CallOrLater(patterns, l, lineNumber, indentLevel, functionCall) ==
    IF IsThrown(functionCall)
    THEN Thrown
    ELSE IF functionCall # Null
    THEN Base("call", l, lineNumber, indentLevel) @@
         [function |-> functionCall.name, arguments |-> functionCall.args]
    ELSE IF Has(patterns, "assignment") /\ Test(patterns.assignment, l)
            /\ ~Has(patterns, "variable")
    THEN Thrown
    ELSE IF Has(patterns, "assignment") /\ Test(patterns.assignment, l)
            /\ ~Test(patterns.variable, l)
    THEN Assigned(Base("assignment", l, lineNumber, indentLevel),
                  Match(patterns.assignment, l).g[1])
    ELSE Base("statement", l, lineNumber, indentLevel)

\* The statement of a line, or Thrown.  patterns is this.patterns and lang
\* is this.language.
analyzeLine(lang, patterns, l, lineNumber, indentLevel) ==
    IF Has(patterns, "variable") /\ Test(patterns.variable, l)
    THEN Named(Base("variable", l, lineNumber, indentLevel),
               GroupOr(Match(patterns.variable, l), 2, 1))
    ELSE IF Has(patterns, "function") /\ Test(patterns.function, l)
    THEN Base("function", l, lineNumber, indentLevel) @@
         [name |-> GroupOr(Match(patterns.function, l), 1, 3)]
    ELSE IF Has(patterns, "if") /\ Test(patterns.if, l)
    THEN Base("if", l, lineNumber, indentLevel) @@
         [condition |-> extractCondition(lang, l)]
    ELSE IF Has(patterns, "for") /\ Test(patterns.for, l)
    THEN Looping(Base("for", l, lineNumber, indentLevel), extractLoopInfo(lang, l))
    ELSE IF Has(patterns, "while") /\ Test(patterns.while, l)
    THEN Base("while", l, lineNumber, indentLevel) @@
         [condition |-> extractCondition(lang, l)]
    ELSE IF Has(patterns, "return") /\ Test(patterns.return, l)
    THEN Base("return", l, lineNumber, indentLevel)
    ELSE CallOrLater(patterns, l, lineNumber, indentLevel,
                     extractFunctionCall(patterns, l))

isComment(patterns, l) ==
    IF Has(patterns, "comment") THEN Test(patterns.comment, l) ELSE FALSE

\* line.match(/^(\s*)/)[1].length
getIndentation(line) == line.ws

\* A variant that rounds the half up.
IndentLevelRoundedUp(line) == (getIndentation(line) + 1) \div 2

\* Math.floor(indent / 2)
IndentLevel(line) == getIndentation(line) \div 2

ControlTypes == {"if", "for", "while", "switch"}

\* The body of the for loop of parseCode for a retained line: the analysis
\* with the statement of the line, or Thrown.
Track(analysis, statement) ==
    IF IsThrown(statement) THEN Thrown
    ELSE [analysis EXCEPT
            !.statements = Append(@, statement),
            !.variables = IF "variables" \in DOMAIN statement
                          THEN @ \cup Range(statement.variables) ELSE @,
            !.functions = IF statement.type = "function"
                          THEN @ \cup {statement.name} ELSE @,
            !.controlStructures = IF statement.type \in ControlTypes
                                  THEN Append(@, statement) ELSE @,
            !.complexity = IF statement.type \in ControlTypes THEN @ + 1 ELSE @]

\* The for loop of parseCode from line k on; analysis is the object built
\* so far, or Thrown once a line has thrown.
RECURSIVE parseLines(_, _, _, _, _)
parseLines(lang, patterns, text, k, analysis) ==
    IF k > Len(text) \/ IsThrown(analysis) THEN analysis
    ELSE IF text[k].toks = << >> \/ isComment(patterns, text[k].toks)
    THEN parseLines(lang, patterns, text, k + 1, analysis)
    ELSE parseLines(lang, patterns, text, k + 1,
                    Track(analysis,
                          analyzeLine(lang, patterns, text[k].toks, k,
                                      IndentLevel(text[k]))))

\* new CodeParser(language).parseCode(code)
parseCode(lang, text) ==
    parseLines(lang, getLanguagePatterns(lang), text, 1,
               [language |-> lang, totalLines |-> Len(text), statements |-> << >>,
                variables |-> {}, functions |-> {}, controlStructures |-> << >>,
                complexity |-> 0])

-----------------------------------------------------------------------------
(* FlowchartGenerator.  A node id `A<n>` is the number n; generateFromAnalysis *)
(* resets nodeCounter to 1.  A node's label, a display text, is left out,  *)
(* and so are the two stacks of createNodes, which nothing reads.  The     *)
(* `previous` property holds the id of the node it refers to.              *)

StartNode(id) == [id |-> id, type |-> "start", shape |-> "ellipse", class |-> "startEnd"]
EndNode(id)   == [id |-> id, type |-> "end", shape |-> "ellipse", class |-> "startEnd"]

\* createNodeFromStatement; index is the 0-based position in the stream.
createNodeFromStatement(statement, index, nodeId) ==
    LET t == statement.type
    IN  [id        |-> nodeId,
         type      |-> t,
         shape     |-> IF t \in {"if", "for", "while"} THEN "diamond" ELSE "rect",
         class     |-> CASE t \in {"if", "for", "while"}       -> "condition"
                         [] t = "function"                     -> "function"
                         [] t \in {"variable", "assignment"}   -> "assignment"
                         [] t = "return"                       -> "return"
                         [] OTHER                              -> "process",
         statement |-> statement,
         index     |-> index]

\* A variant of the switch of createNodes without the case for 'return'.
NodeFlagsWithoutReturn(node, previousNode) ==
    CASE node.type = "if" ->
            node @@ [hasConditionalBranches |-> TRUE, yesBranch |-> Null, noBranch |-> Null]
      [] node.type \in {"for", "while"} ->
            node @@ [hasLoopBack |-> TRUE, loopExit |-> Null]
      [] OTHER ->
            node @@ [previous |-> previousNode.id]

\* The switch of createNodes: the properties it adds to a new node.
NodeFlags(node, previousNode) ==
    CASE node.type = "if" ->
            node @@ [hasConditionalBranches |-> TRUE, yesBranch |-> Null, noBranch |-> Null]
      [] node.type \in {"for", "while"} ->
            node @@ [hasLoopBack |-> TRUE, loopExit |-> Null]
      [] node.type = "return" ->
            node @@ [connectsToEnd |-> TRUE]
      [] OTHER ->
            node @@ [previous |-> previousNode.id]

\* The loop of createNodes from statement k (1-based) on.
RECURSIVE createNodesFrom(_, _, _)
createNodesFrom(statements, k, nodes) ==
    IF k > Len(statements) THEN nodes
    ELSE LET node == createNodeFromStatement(statements[k], k - 1, Len(nodes) + 1)
         IN  createNodesFrom(statements, k + 1,
                             Append(nodes, NodeFlags(node, nodes[Len(nodes)])))

\* A variant that does not advance nodeCounter for the end node.
createNodesReusingId(statements) ==
    LET body == createNodesFrom(statements, 1, <<StartNode(1)>>)
    IN  Append(body, EndNode(Len(body)))

createNodes(statements) ==
    LET body == createNodesFrom(statements, 1, <<StartNode(1)>>)
    IN  Append(body, EndNode(Len(body) + 1))

HasStatement(node) == "statement" \in DOMAIN node

\* The forward scan shared by findElseTarget and findLoopExit, from node
\* position i (1-based) on.
RECURSIVE ScanSameOrLower(_, _, _)
ScanSameOrLower(nodes, currentIndent, i) ==
    IF i > Len(nodes) THEN nodes[Len(nodes)].id
    ELSE IF HasStatement(nodes[i]) /\ nodes[i].statement.indent <= currentIndent
    THEN nodes[i].id
    ELSE ScanSameOrLower(nodes, currentIndent, i + 1)

\* currentIndex is the 1-based position of the node; the scan of the code
\* starts two positions after it.
findElseTarget(conditionNode, nodes, currentIndex) ==
    ScanSameOrLower(nodes, conditionNode.statement.indent, currentIndex + 2)

\* A variant whose scan starts at the loop node itself.
findLoopExitFromSelf(loopNode, nodes, currentIndex) ==
    ScanSameOrLower(nodes, loopNode.statement.indent, currentIndex)

findLoopExit(loopNode, nodes, currentIndex) ==
    ScanSameOrLower(nodes, loopNode.statement.indent, currentIndex + 2)

\* The scan of findLoopBack from position i on; lastInLoop is an id, or 0
\* for null.
RECURSIVE ScanLoopBody(_, _, _, _)
ScanLoopBody(nodes, currentIndent, i, lastInLoop) ==
    IF i > Len(nodes) THEN lastInLoop
    ELSE IF HasStatement(nodes[i]) /\ nodes[i].statement.indent > currentIndent
    THEN ScanLoopBody(nodes, currentIndent, i + 1, nodes[i].id)
    ELSE lastInLoop

\* A variant that stops at the first statement of the loop body.
findLoopBackFirst(loopNode, nodes, currentIndex) ==
    IF currentIndex + 1 <= Len(nodes) /\ HasStatement(nodes[currentIndex + 1])
       /\ nodes[currentIndex + 1].statement.indent > loopNode.statement.indent
    THEN nodes[currentIndex + 1].id
    ELSE 0

findLoopBack(loopNode, nodes, currentIndex) ==
    ScanLoopBody(nodes, loopNode.statement.indent, currentIndex + 1, 0)

Plain(from, to) == [from |-> from, to |-> to, label |-> ""]
Styled(from, to, label, style) ==
    [from |-> from, to |-> to, label |-> label, style |-> style]

\* The connections createConnections pushes for the node at position i.
ConnectionsOf(nodes, i) ==
    LET currentNode == nodes[i]
        nextNode    == nodes[i + 1]
        loopBack    == findLoopBack(currentNode, nodes, i)
    IN  IF currentNode.type = "start"
        THEN <<Plain(currentNode.id, nextNode.id)>>
        ELSE IF currentNode.type = "if"
        THEN <<Styled(currentNode.id, nextNode.id, "Yes",
                      "stroke:#27ae60,stroke-width:2px"),
               Styled(currentNode.id, findElseTarget(currentNode, nodes, i), "No",
                      "stroke:#e74c3c,stroke-width:2px")>>
        ELSE IF currentNode.type \in {"for", "while"}
        THEN <<Styled(currentNode.id, nextNode.id, "Continue",
                      "stroke:#3498db,stroke-width:2px"),
               Styled(currentNode.id, findLoopExit(currentNode, nodes, i), "Exit",
                      "stroke:#e74c3c,stroke-width:2px")>>
             \o (IF loopBack # 0
                 THEN <<Styled(loopBack, currentNode.id, "Loop",
                               "stroke:#f39c12,stroke-width:2px,stroke-dasharray: 5 5")>>
                 ELSE << >>)
        ELSE IF "connectsToEnd" \in DOMAIN currentNode /\ currentNode.connectsToEnd
        THEN <<Plain(currentNode.id, nodes[Len(nodes)].id)>>
        ELSE IF currentNode.type # "end"
        THEN <<Plain(currentNode.id, nextNode.id)>>
        ELSE << >>

\* A variant of the loop that passes over the start node.
RECURSIVE createConnectionsAfterStart(_, _)
createConnectionsAfterStart(nodes, i) ==
    IF i + 1 > Len(nodes) - 1 THEN << >>
    ELSE ConnectionsOf(nodes, i + 1) \o createConnectionsAfterStart(nodes, i + 1)

\* A variant of the loop that stops one node early.
RECURSIVE createConnectionsShort(_, _)
createConnectionsShort(nodes, i) ==
    IF i > Len(nodes) - 2 THEN << >>
    ELSE ConnectionsOf(nodes, i) \o createConnectionsShort(nodes, i + 1)

\* The loop of createConnections from position i on (i < nodes.length).
RECURSIVE createConnectionsFrom(_, _)
createConnectionsFrom(nodes, i) ==
    IF i > Len(nodes) - 1 THEN << >>
    ELSE ConnectionsOf(nodes, i) \o createConnectionsFrom(nodes, i + 1)

createConnections(nodes) == createConnectionsFrom(nodes, 1)

-----------------------------------------------------------------------------
(* The characters of a line *)

\* The UTF-16 code units of every token.
CharCodes ==
    "let" :> <<108, 101, 116>> @@
    "const" :> <<99, 111, 110, 115, 116>> @@
    "var" :> <<118, 97, 114>> @@
    "function" :> <<102, 117, 110, 99, 116, 105, 111, 110>> @@
    "def" :> <<100, 101, 102>> @@
    "if" :> <<105, 102>> @@
    "elif" :> <<101, 108, 105, 102>> @@
    "for" :> <<102, 111, 114>> @@
    "in" :> <<105, 110>> @@
    "while" :> <<119, 104, 105, 108, 101>> @@
    "return" :> <<114, 101, 116, 117, 114, 110>> @@
    "int" :> <<105, 110, 116>> @@
    "public" :> <<112, 117, 98, 108, 105, 99>> @@
    "static" :> <<115, 116, 97, 116, 105, 99>> @@
    "do" :> <<100, 111>> @@
    "x" :> <<120>> @@
    "y" :> <<121>> @@
    "foo" :> <<102, 111, 111>> @@
    "i" :> <<105>> @@
    "Aa" :> <<65, 97>> @@
    "BB" :> <<66, 66>> @@
    "eval" :> <<101, 118, 97, 108>> @@
    "Eval" :> <<69, 118, 97, 108>> @@
    "innerHTML" :> <<105, 110, 110, 101, 114, 72, 84, 77, 76>> @@
    "1" :> <<49>> @@
    "2" :> <<50>> @@
    "(" :> <<40>> @@
    ")" :> <<41>> @@
    "=" :> <<61>> @@
    ";" :> <<59>> @@
    ":" :> <<58>> @@
    "," :> <<44>> @@
    "#" :> <<35>> @@
    "//" :> <<47, 47>> @@
    "/*" :> <<47, 42>> @@
    "&&" :> <<38, 38>> @@
    "||" :> <<124, 124>> @@
    "<" :> <<60>> @@
    "{" :> <<123>> @@
    "}" :> <<125>> @@
    "." :> <<46>> @@
    " " :> <<32>>

RECURSIVE TokensToChars(_, _)
TokensToChars(l, i) ==
    IF i > Len(l) THEN << >> ELSE CharCodes[l[i]] \o TokensToChars(l, i + 1)

\* String.prototype.toLowerCase, on the letters A-Z
ToLowerCase(chars) ==
    [k \in 1..Len(chars) |-> IF chars[k] \in 65..90 THEN chars[k] + 32 ELSE chars[k]]

\* String.prototype.includes
Includes(chars, search) ==
    \E k \in 1..(Len(chars) - Len(search) + 1) :
        SubSeq(chars, k, k + Len(search) - 1) = search

-----------------------------------------------------------------------------
(* CodeAnalyzer: execution steps, metrics, time complexity.  The           *)
(* description and explanation of a step, display texts, are left out.     *)

MemoryChange(action, variable, type) ==
    [action |-> action, variable |-> variable, type |-> type]

getStatementComplexity(statement) ==
    CASE statement.type \in {"variable", "assignment", "call", "return"} -> 1
      [] statement.type \in {"if", "function"} -> 2
      [] statement.type \in {"for", "while"} -> 3
      [] OTHER -> 1

createExecutionStep(statement, stepNumber) ==
    LET t == statement.type
    IN  [stepNumber |-> stepNumber,
         type |-> t,
         code |-> statement.code,
         line |-> statement.line,
         category |->
            CASE t \in {"variable", "assignment"} -> "memory"
              [] t = "function" -> "definition"
              [] t \in {"if", "for", "while", "return"} -> "control"
              [] OTHER -> "execution",
         memoryChanges |->
            CASE t = "variable" -> <<MemoryChange("create", statement.name, "variable")>>
              [] t = "assignment" ->
                    <<MemoryChange("update", statement.variable, "assignment")>>
              [] t = "function" -> <<MemoryChange("create", statement.name, "function")>>
              [] t = "for" ->
                    IF "loopVar" \in DOMAIN statement /\ statement.loopVar # ""
                    THEN <<MemoryChange("create", statement.loopVar, "loop_variable")>>
                    ELSE << >>
              [] OTHER -> << >>,
         indent |-> statement.indent,
         complexity |-> getStatementComplexity(statement)]

\* A variant whose stepCounter starts at 0.
generateExecutionStepsFromZero(analysis) ==
    [k \in 1..Len(analysis.statements) |->
        createExecutionStep(analysis.statements[k], k - 1)]

generateExecutionSteps(analysis) ==
    [k \in 1..Len(analysis.statements) |->
        createExecutionStep(analysis.statements[k], k)]

\* A variant that counts the matches of /&&/g only.
RECURSIVE CountAndOps(_, _)
CountAndOps(cond, i) ==
    IF i > Len(cond) THEN 0
    ELSE (IF cond[i] = "&&" THEN 1 ELSE 0) + CountAndOps(cond, i + 1)

\* The number of matches of /&&|\|\|/g in a condition.
RECURSIVE CountBoolOps(_, _)
CountBoolOps(cond, i) ==
    IF i > Len(cond) THEN 0
    ELSE (IF cond[i] \in {"&&", "||"} THEN 1 ELSE 0) + CountBoolOps(cond, i + 1)

\* The loop of calculateCyclomaticComplexity from statement k on.
RECURSIVE CyclomaticFrom(_, _, _)
CyclomaticFrom(statements, k, complexity) ==
    IF k > Len(statements) THEN complexity
    ELSE LET st == statements[k]
             c1 == IF st.type \in {"if", "for", "while", "switch", "case"}
                   THEN complexity + 1 ELSE complexity
             c2 == IF "condition" \in DOMAIN st /\ st.condition # << >>
                      /\ CountBoolOps(st.condition, 1) > 0
                   THEN c1 + CountBoolOps(st.condition, 1) ELSE c1
         IN  CyclomaticFrom(statements, k + 1, c2)

\* A variant that hands on the count of control structures of the parser.
calculateCyclomaticAsParser(analysis) == analysis.complexity

\* A variant that starts the count at 0.
calculateCyclomaticFromZero(analysis) == CyclomaticFrom(analysis.statements, 1, 0)

calculateCyclomaticComplexity(analysis) == CyclomaticFrom(analysis.statements, 1, 1)

Max(a, b) == IF a >= b THEN a ELSE b

\* A variant in which a statement follows a deeper one.
PreviousIndentDeeper(st) == st.indent + 1

\* statement.previousIndent || 0 : no method sets previousIndent.
PreviousIndent(st) == IF "previousIndent" \in DOMAIN st THEN st.previousIndent ELSE 0

\* The loop of estimateTimeComplexity from statement k on: the final
\* nestedLoopDepth.
RECURSIVE LoopDepthFrom(_, _, _, _)
LoopDepthFrom(statements, k, nestedLoopDepth, currentDepth) ==
    IF k > Len(statements) THEN nestedLoopDepth
    ELSE LET st == statements[k]
         IN  IF st.type \in {"for", "while"}
             THEN LoopDepthFrom(statements, k + 1,
                                Max(nestedLoopDepth, currentDepth + 1), currentDepth + 1)
             ELSE IF st.indent < PreviousIndent(st)
             THEN LoopDepthFrom(statements, k + 1, nestedLoopDepth,
                                Max(0, currentDepth - 1))
             ELSE LoopDepthFrom(statements, k + 1, nestedLoopDepth, currentDepth)

\* The decimal digits of a natural number, as a sequence of strings.
RECURSIVE NumStr(_)
NumStr(n) ==
    LET digit == <<"0", "1", "2", "3", "4", "5", "6", "7", "8", "9">>
    IN  IF n < 10 THEN <<digit[n + 1]>>
        ELSE NumStr(n \div 10) \o <<digit[(n % 10) + 1]>>

\* A variant whose switch has no case for depth 0.
estimateTimeComplexityNoConstant(analysis) ==
    <<"O(n^">> \o NumStr(LoopDepthFrom(analysis.statements, 1, 0, 0)) \o <<")">>

\* A complexity text is a sequence of string pieces.
estimateTimeComplexity(analysis) ==
    LET nestedLoopDepth == LoopDepthFrom(analysis.statements, 1, 0, 0)
    IN  CASE nestedLoopDepth = 0 -> <<"O(1)">>
          [] nestedLoopDepth = 1 -> <<"O(n)">>
          [] nestedLoopDepth = 2 -> <<"O(n²)">>
          [] nestedLoopDepth = 3 -> <<"O(n³)">>
          [] OTHER -> <<"O(n^">> \o NumStr(nestedLoopDepth) \o <<")">>

\* The characters of a complexity text.
PieceChars ==
    "O(1)" :> <<79, 40, 49, 41>> @@
    "O(n)" :> <<79, 40, 110, 41>> @@
    "O(n²)" :> <<79, 40, 110, 178, 41>> @@
    "O(n³)" :> <<79, 40, 110, 179, 41>> @@
    "O(n^" :> <<79, 40, 110, 94>> @@
    ")" :> <<41>> @@
    "0" :> <<48>> @@ "1" :> <<49>> @@ "2" :> <<50>> @@ "3" :> <<51>> @@
    "4" :> <<52>> @@ "5" :> <<53>> @@ "6" :> <<54>> @@ "7" :> <<55>> @@
    "8" :> <<56>> @@ "9" :> <<57>>

RECURSIVE ComplexityChars(_, _)
ComplexityChars(pieces, i) ==
    IF i > Len(pieces) THEN << >>
    ELSE PieceChars[pieces[i]] \o ComplexityChars(pieces, i + 1)

\* The characters of a name; a name that is no token has none.
NameChars(name) == IF name \in DOMAIN CharCodes THEN CharCodes[name] ELSE << >>

\* name.toLowerCase().includes(search)
LowerIncludes(name, search) == Includes(ToLowerCase(NameChars(name)), search)

\* 'create', 'factory', 'notify', 'observer'
CreateChars == <<99, 114, 101, 97, 116, 101>>
FactoryChars == <<102, 97, 99, 116, 111, 114, 121>>
NotifyChars == <<110, 111, 116, 105, 102, 121>>
ObserverChars == <<111, 98, 115, 101, 114, 118, 101, 114>>

\* The confidence of a design pattern, a fraction, and the description of
\* a pattern are left out.
identifyDesignPatterns(analysis) ==
    (IF \E name \in analysis.functions :
           LowerIncludes(name, CreateChars) \/ LowerIncludes(name, FactoryChars)
     THEN <<[type |-> "factory_pattern"]>> ELSE << >>)
    \o
    (IF \E name \in analysis.functions :
           LowerIncludes(name, NotifyChars) \/ LowerIncludes(name, ObserverChars)
     THEN <<[type |-> "observer_pattern"]>> ELSE << >>)

\* The number of tokens t in l from position i on.
RECURSIVE CountToken(_, _, _)
CountToken(l, t, i) ==
    IF i > Len(l) THEN 0
    ELSE (IF l[i] = t THEN 1 ELSE 0) + CountToken(l, t, i + 1)

\* The loop of identifyCodeSmells from statement k on.
RECURSIVE SmellsFrom(_, _)
SmellsFrom(statements, k) ==
    IF k > Len(statements) THEN << >>
    ELSE (IF statements[k].type = "function"
             /\ CountToken(statements[k].code, ",", 1) + 1 > 5
          THEN <<[type |-> "long_parameter_list", line |-> statements[k].line,
                  severity |-> "warning"]>>
          ELSE << >>)
         \o SmellsFrom(statements, k + 1)

identifyCodeSmells(analysis) == SmellsFrom(analysis.statements, 1)

findRecursiveFunctions(analysis) ==
    {funcName \in analysis.functions :
        \E k \in 1..Len(analysis.statements) :
            /\ analysis.statements[k].type = "call"
            /\ analysis.statements[k].function = funcName}

\* A variant whose inner search starts at the outer loop itself and accepts
\* an equal indent.
hasNestedLoopsFromSelf(statements) ==
    \E i \in 1..Len(statements) :
        /\ statements[i].type = "for"
        /\ \E j \in i..Len(statements) :
             statements[j].type = "for" /\ statements[j].indent >= statements[i].indent

hasNestedLoops(statements) ==
    \E i \in 1..Len(statements) :
        /\ statements[i].type = "for"
        /\ \E j \in (i + 1)..Len(statements) :
             statements[j].type = "for" /\ statements[j].indent > statements[i].indent

identifyAlgorithmPatterns(analysis) ==
    (IF hasNestedLoops(analysis.statements)
     THEN <<[type |-> "nested_loops", complexity |-> "quadratic"]>> ELSE << >>)
    \o
    (IF findRecursiveFunctions(analysis) # {}
     THEN <<[type |-> "recursion", functions |-> findRecursiveFunctions(analysis)]>>
     ELSE << >>)

identifyPatterns(analysis) ==
    identifyDesignPatterns(analysis) \o identifyCodeSmells(analysis)
    \o identifyAlgorithmPatterns(analysis)

\* patterns.some(p => p.type === t)
SomeOfType(patterns, t) == \E k \in 1..Len(patterns) : patterns[k].type = t

estimateSpaceComplexity(analysis) ==
    IF SomeOfType(analysis.patterns, "recursion") THEN <<"O(n)">>
    ELSE IF Cardinality(analysis.variables) < 10 THEN <<"O(1)">>
    ELSE <<"O(n)">>

\* The description of a bottleneck and the message of a suggestion are
\* left out.
identifyBottlenecks(analysis) ==
    (IF SomeOfType(analysis.patterns, "nested_loops")
     THEN <<[type |-> "nested_loops", impact |-> "high"]>> ELSE << >>)
    \o
    (IF SomeOfType(analysis.patterns, "recursion")
     THEN <<[type |-> "recursion", impact |-> "medium"]>> ELSE << >>)

\* 'n²', 'n³'
SquaredChars == <<110, 178>>
CubedChars == <<110, 179>>

generateOptimizationSuggestions(analysis, performance) ==
    (IF Includes(ComplexityChars(performance.timeComplexity, 1), SquaredChars)
        \/ Includes(ComplexityChars(performance.timeComplexity, 1), CubedChars)
     THEN <<[type |-> "algorithm_optimization", priority |-> "high"]>> ELSE << >>)
    \o
    (IF SomeOfType(performance.bottlenecks, "recursion")
     THEN <<[type |-> "memoization", priority |-> "medium"]>> ELSE << >>)

WithSuggestions(analysis, performance) ==
    [performance EXCEPT
        !.optimizationSuggestions = generateOptimizationSuggestions(analysis, performance)]

\* analysis carries the patterns enhanceAnalysis has stored before.
analyzePerformance(analysis) ==
    WithSuggestions(analysis,
        [timeComplexity |-> estimateTimeComplexity(analysis),
         spaceComplexity |-> estimateSpaceComplexity(analysis),
         bottlenecks |-> identifyBottlenecks(analysis),
         optimizationSuggestions |-> << >>])

\* 'eval(', 'innerhtml'
EvalChars == <<101, 118, 97, 108, 40>>
InnerHtmlChars == <<105, 110, 110, 101, 114, 104, 116, 109, 108>>

\* The issues of one statement, whose text has the characters chars; the
\* message of an issue is left out.
IssuesOf(statement, chars) ==
    (IF Includes(ToLowerCase(chars), EvalChars)
     THEN <<[type |-> "eval_usage", severity |-> "high", line |-> statement.line]>>
     ELSE << >>)
    \o
    (IF Includes(ToLowerCase(chars), InnerHtmlChars)
     THEN <<[type |-> "innerHTML_usage", severity |-> "medium", line |-> statement.line]>>
     ELSE << >>)

\* The loop of analyzeSecurityIssues from statement k on.
RECURSIVE IssuesFrom(_, _)
IssuesFrom(statements, k) ==
    IF k > Len(statements) THEN << >>
    ELSE IssuesOf(statements[k], TokensToChars(statements[k].code, 1))
         \o IssuesFrom(statements, k + 1)

\* A variant whose medium level ends below two issues.
RiskOfBelowTwo(issues) ==
    [issues |-> issues,
     riskLevel |-> IF Len(issues) = 0 THEN "low"
                   ELSE IF Len(issues) < 2 THEN "medium" ELSE "high"]

RiskOf(issues) ==
    [issues |-> issues,
     riskLevel |-> IF Len(issues) = 0 THEN "low"
                   ELSE IF Len(issues) <= 2 THEN "medium" ELSE "high"]

analyzeSecurityIssues(analysis) == RiskOf(IssuesFrom(analysis.statements, 1))

\* The loop of calculateMaxNesting from statement k on: the final maxDepth.
RECURSIVE MaxDepthFrom(_, _, _)
MaxDepthFrom(statements, k, maxDepth) ==
    IF k > Len(statements) THEN maxDepth
    ELSE MaxDepthFrom(statements, k + 1,
            IF statements[k].type \in {"if", "for", "while", "function"}
            THEN Max(maxDepth, statements[k].indent) ELSE maxDepth)

calculateMaxNesting(analysis) == MaxDepthFrom(analysis.statements, 1, 0) \div 2

\* The number of statements of l whose type is (keep) or is not (~keep) t.
RECURSIVE CountType(_, _, _, _)
CountType(statements, k, t, keep) ==
    IF k > Len(statements) THEN 0
    ELSE (IF (statements[k].type = t) = keep THEN 1 ELSE 0)
         + CountType(statements, k + 1, t, keep)

countLinesOfCode(analysis) == CountType(analysis.statements, 1, "comment", FALSE)

\* A variant that takes the lines of the text that gave no statement for the
\* comment lines.
calculateCodeCommentRatioOfLines(analysis) ==
    LET codeLines    == countLinesOfCode(analysis)
        commentLines == analysis.totalLines - Len(analysis.statements)
    IN  IF commentLines > 0
        THEN [num |-> codeLines, den |-> commentLines]
        ELSE [num |-> codeLines, den |-> 1]

\* A ratio is the fraction num / den, den > 0.
calculateCodeCommentRatio(analysis) ==
    LET codeLines    == countLinesOfCode(analysis)
        commentLines == CountType(analysis.statements, 1, "comment", TRUE)
    IN  IF commentLines > 0
        THEN [num |-> codeLines, den |-> commentLines]
        ELSE [num |-> codeLines, den |-> 1]

Min(a, b) == IF a <= b THEN a ELSE b

\* A variant without the reward for the comment ratio.
calculateQualityScoreNoBonus(metrics) ==
    LET s0 == 100
        s1 == IF metrics.cyclomaticComplexity > 10
              THEN s0 - (metrics.cyclomaticComplexity - 10) * 5 ELSE s0
        s2 == IF metrics.maxNestingDepth > 4
              THEN s1 - (metrics.maxNestingDepth - 4) * 10 ELSE s1
    IN  Max(0, Min(100, s2))

calculateQualityScore(metrics) ==
    LET s0 == 100
        s1 == IF metrics.cyclomaticComplexity > 10
              THEN s0 - (metrics.cyclomaticComplexity - 10) * 5 ELSE s0
        s2 == IF metrics.maxNestingDepth > 4
              THEN s1 - (metrics.maxNestingDepth - 4) * 10 ELSE s1
        r  == metrics.codeToCommentRatio
        s3 == IF r.num > 3 * r.den /\ r.num < 10 * r.den THEN s2 + 10 ELSE s2
    IN  Max(0, Min(100, s3))

WithQualityScore(metrics) ==
    metrics @@ [qualityScore |-> calculateQualityScore(metrics)]

calculateMetrics(analysis) ==
    WithQualityScore(
        [totalStatements |-> Len(analysis.statements),
         totalLines |-> analysis.totalLines,
         cyclomaticComplexity |-> calculateCyclomaticComplexity(analysis),
         variableCount |-> Cardinality(analysis.variables),
         functionCount |-> Cardinality(analysis.functions),
         maxNestingDepth |-> calculateMaxNesting(analysis),
         linesOfCode |-> countLinesOfCode(analysis),
         codeToCommentRatio |-> calculateCodeCommentRatio(analysis)])

\* getLinkIndex returns Math.floor(Math.random() * 100), a number of 0..99
\* that no state of the program determines.  The model follows the least
\* and the greatest of them.
LinkIndexes == {0, 99}

\* What the n calls of getLinkIndex of one generateFromAnalysis return.  The
\* model follows the runs in which every call returns the same index.
RandomRuns(n) == {[k \in 1..n |-> index] : index \in LinkIndexes}

\* The connections for which addConnection writes a linkStyle line.
StyledOf(connections) == SelectSeq(connections, LAMBDA c : "style" \in DOMAIN c)

StyledCount(statements) == Len(StyledOf(createConnections(createNodes(statements))))

\* flowchartGenerator.generateFromAnalysis: the nodes and the connections
\* that the flowchart text lists, and its linkStyle lines; random holds
\* what the calls of getLinkIndex return, one after the other.
generateFromAnalysis(analysis, random) ==
    LET nodes == createNodes(analysis.statements)
        connections == createConnections(nodes)
        styled == StyledOf(connections)
    IN  [nodes |-> nodes, connections |-> connections,
         linkStyles |-> [q \in 1..Len(styled) |->
                           [index |-> random[q], style |-> styled[q].style]]]

\* The loop of analyzeFunctionLengths from statement k on: functions is the
\* list built so far, currentFunction the function that is open (Null if
\* none).
RECURSIVE FunctionLengthsFrom(_, _, _, _)
FunctionLengthsFrom(analysis, k, functions, currentFunction) ==
    IF k > Len(analysis.statements)
    THEN IF currentFunction = Null THEN functions
         ELSE Append(functions,
                     [currentFunction EXCEPT
                         !.length = analysis.totalLines - currentFunction.startLine])
    ELSE LET statement == analysis.statements[k]
         IN  IF statement.type = "function"
             THEN FunctionLengthsFrom(analysis, k + 1,
                      IF currentFunction = Null THEN functions
                      ELSE Append(functions,
                                  [currentFunction EXCEPT
                                      !.length = statement.line - currentFunction.startLine]),
                      [name |-> statement.name, startLine |-> statement.line, length |-> 0])
             ELSE FunctionLengthsFrom(analysis, k + 1, functions, currentFunction)

analyzeFunctionLengths(analysis) == FunctionLengthsFrom(analysis, 1, << >>, Null)

\* parseInt of a token made of digits.
DigitValue == "1" :> 1 @@ "2" :> 2

\* The matches of /\b(\d+)\b/g in a line, from token i on, that are no
\* common number: the digits that stand between two tokens that are no
\* words.
RECURSIVE MagicIn(_, _, _)
MagicIn(l, lineNumber, i) ==
    IF i > Len(l) THEN << >>
    ELSE (IF l[i] \in DOMAIN DigitValue
             /\ ~IsWord(At(l, i - 1)) /\ ~IsWord(At(l, i + 1))
             /\ DigitValue[l[i]] > 1 /\ DigitValue[l[i]] # 100 /\ DigitValue[l[i]] # 1000
          THEN <<[value |-> DigitValue[l[i]], line |-> lineNumber]>> ELSE << >>)
         \o MagicIn(l, lineNumber, i + 1)

RECURSIVE MagicFrom(_, _)
MagicFrom(statements, k) ==
    IF k > Len(statements) THEN << >>
    ELSE MagicIn(statements[k].code, statements[k].line, 1) \o MagicFrom(statements, k + 1)

findMagicNumbers(analysis) == MagicFrom(analysis.statements, 1)

getOverallRating(issueCount) ==
    IF issueCount = 0 THEN "excellent"
    ELSE IF issueCount <= 2 THEN "good"
    ELSE IF issueCount <= 5 THEN "fair"
    ELSE "needs_improvement"

\* The issues of the functions from position k on: one for each function of
\* more than 50 lines.
RECURSIVE LongFunctionsFrom(_, _)
LongFunctionsFrom(functionLengths, k) ==
    IF k > Len(functionLengths) THEN << >>
    ELSE (IF functionLengths[k].length > 50
          THEN <<[type |-> "long_function", severity |-> "warning",
                  line |-> functionLengths[k].startLine]>>
          ELSE << >>)
         \o LongFunctionsFrom(functionLengths, k + 1)

\* The message of an issue and of a suggestion is left out.
assessCodeQuality(analysis) ==
    LET deepNesting == {k \in 1..Len(analysis.statements) :
                           analysis.statements[k].indent > 8}
        issues == LongFunctionsFrom(analyzeFunctionLengths(analysis), 1)
                  \o (IF deepNesting # {}
                      THEN <<[type |-> "deep_nesting", severity |-> "warning",
                              count |-> Cardinality(deepNesting)]>>
                      ELSE << >>)
        magicNumbers == findMagicNumbers(analysis)
    IN  [issues |-> issues,
         suggestions |-> [q \in 1..Len(magicNumbers) |->
                            [type |-> "magic_number", line |-> magicNumbers[q].line]],
         overallRating |-> getOverallRating(Len(issues))]

\* enhanceAnalysis after the patterns are stored, and the execution steps
\* and metrics of analyzeCode.  The flowInsights and variableFlow
\* properties are left out.
Enhanced(analysis) ==
    analysis @@
    [quality        |-> assessCodeQuality(analysis),
     performance    |-> analyzePerformance(analysis),
     security       |-> analyzeSecurityIssues(analysis),
     executionSteps |-> generateExecutionSteps(analysis),
     metrics        |-> calculateMetrics(analysis)]

\* analysis.flowchartCode = flowchartGenerator.generateFromAnalysis(analysis)
WithFlowchart(analysis, random) ==
    analysis @@ [flowchartCode |-> generateFromAnalysis(analysis, random)]

\* The part of analyzeCode after the parse: the analysis object it returns
\* when the calls of getLinkIndex return random.
completeAnalysis(parsed, random) ==
    WithFlowchart(Enhanced(parsed @@ [patterns |-> identifyPatterns(parsed)]), random)

-----------------------------------------------------------------------------
(* CodeAnalyzer.hashCode and the cache *)

LineToChars(line) == [k \in 1..line.ws |-> 32] \o TokensToChars(line.toks, 1)

\* A 32-bit integer is held as its two's complement bit pattern, in two
\* 16-bit halves hi and lo (TLC's integers are themselves 32 bits wide).
\* The signed value of a bit pattern:
Signed32(hi, lo) ==
    IF hi >= 32768 THEN (hi - 65536) * 65536 + lo ELSE hi * 65536 + lo

\* The loop of hashCode over the characters of str from character i on,
\* entered with the bit pattern <<hi, lo>> of hash:
\*     hash = ((hash << 5) - hash) + char; hash = hash & hash
\* (hash << 5) - hash + char is 31 * hash + char, wrapped to 32 bits.
RECURSIVE HashFrom(_, _, _, _)
HashFrom(str, i, hi, lo) ==
    IF i > Len(str) \/ hi < 0 \/ lo < 0 THEN <<hi, lo>>  \* hi, lo are never negative
    ELSE HashFrom(str, i + 1,
                  (hi * 31 + (lo * 31 + str[i]) \div 65536) % 65536,
                  (lo * 31 + str[i]) % 65536)

\* The loop over the whole text, from line k on: the characters of the
\* text are its lines joined by "\n", so the loop runs over each line in
\* turn, with "\n" before every line but the first.
RECURSIVE HashLines(_, _, _)
HashLines(text, k, hash) ==
    IF k > Len(text) \/ hash[1] < 0 THEN hash
    ELSE HashLines(text, k + 1,
                   HashFrom((IF k > 1 THEN <<10>> ELSE << >>) \o LineToChars(text[k]),
                            1, hash[1], hash[2]))

hashCode(text) ==
    LET hash == HashLines(text, 1, <<0, 0>>) IN Signed32(hash[1], hash[2])

\* `${language}:${this.hashCode(code)}` : the language and the hash
cacheKey(lang, text) == <<lang, hashCode(text)>>

-----------------------------------------------------------------------------
(* CodeAnalyzer.analyzeCode and clearCache.  An analysis object is known   *)
(* by its identity, its position in heap; the cache maps a key to an       *)
(* identity.                                                               *)

\* A variant that stores nothing.
CacheSetDropped(cache, key, obj) == cache

\* The cache with key set to obj: Map.prototype.set
CacheSet(cache, key, obj) ==
    [k \in DOMAIN cache \cup {key} |-> IF k = key THEN obj ELSE cache[k]]

\* The history after a call of analyzeCode(c, lang) returned obj.
Remember(history, c, lang, obj) ==
    IF <<c, lang>> \in DOMAIN history THEN history
    ELSE [a \in DOMAIN history \cup {<<c, lang>>} |->
            IF a = <<c, lang>> THEN obj ELSE history[a]]

\* The number of analysis objects up to which the model follows an analyzer.
MaxObjects == 3

\* The body of analyzeCode: key is the cache key of the call and parsed is
\* what the parser makes of the text (it is run on a cache miss only).  A
\* call that has to create an object is possible while fewer than
\* MaxObjects exist.
analyzeCodeBody(c, lang, key, parsed) ==
    /\ key \in DOMAIN analysisCache \/ Len(heap) < MaxObjects
    /\ code' = c
    /\ language' = lang
    /\ IF key \in DOMAIN analysisCache
       THEN /\ pc' = "returned"
            /\ returned' = analysisCache[key]
            /\ computed' = FALSE
            /\ firstSince' = Remember(firstSince, c, lang, analysisCache[key])
            /\ UNCHANGED <<analysisCache, heap>>
       ELSE IF IsThrown(parsed)
       THEN /\ pc' = "threw"
            /\ returned' = 0
            /\ computed' = TRUE
            /\ UNCHANGED <<analysisCache, heap, firstSince>>
       ELSE /\ pc' = "returned"
            /\ LET analysis == Enhanced(parsed @@ [patterns |-> identifyPatterns(parsed)])
               IN  \E random \in RandomRuns(StyledCount(parsed.statements)) :
                      heap' = Append(heap, WithFlowchart(analysis, random))
            /\ analysisCache' = CacheSet(analysisCache, key, Len(heap) + 1)
            /\ returned' = Len(heap) + 1
            /\ computed' = TRUE
            /\ firstSince' = Remember(firstSince, c, lang, Len(heap) + 1)

\* A call analyzeCode(c, lang) with both arguments given.
analyzeCode(c, lang) ==
    analyzeCodeBody(c, lang, cacheKey(lang, c), parseCode(lang, c))

\* A variant of clearCache that leaves the entries in place.
clearCacheKeeping ==
    /\ analysisCache' = analysisCache
    /\ firstSince' = << >>
    /\ pc' = "cleared"
    /\ returned' = 0
    /\ computed' = FALSE
    /\ UNCHANGED <<code, language, heap>>

clearCache ==
    /\ analysisCache' = << >>
    /\ firstSince' = << >>
    /\ pc' = "cleared"
    /\ returned' = 0
    /\ computed' = FALSE
    /\ UNCHANGED <<code, language, heap>>

\* A new CodeAnalyzer about to be called with (c, lang).
Fresh(c, lang) ==
    /\ code = c
    /\ language = lang
    /\ pc = "ready"
    /\ analysisCache = << >>
    /\ heap = << >>
    /\ returned = 0
    /\ computed = FALSE
    /\ firstSince = << >>
    /\ timers = << >>
    /\ currentAnalysis = 0
    /\ message = "none"
    /\ lastRequest = Null
    /\ now = 0

\* The pending call of a fresh analyzer.
Analyze == pc = "ready" /\ analyzeCode(code, language) /\ UNCHANGED appVars

-----------------------------------------------------------------------------
(* CodeVisualizerApp: analyzeCurrentCode and its timer callback.  What the *)
(* app displays is left out, but for the type of the message it shows.     *)

\* String.prototype.trim on a text: the blank lines at either end go, and
\* so does the whitespace that leads the first line left.
RECURSIVE TrimText(_)
TrimText(text) ==
    IF text = << >> THEN << >>
    ELSE IF text[1].toks = << >> THEN TrimText(Tail(text))
    ELSE IF text[Len(text)].toks = << >> THEN TrimText(SubSeq(text, 1, Len(text) - 1))
    ELSE <<[text[1] EXCEPT !.ws = 0]>> \o Tail(text)

\* The delay of the timer of analyzeCurrentCode, in ms.
Delay == 500

\* The number of timers that the model lets wait at once, and the number
\* of steps of Delay ms up to which it follows the time.
MaxTimers == 2
MaxTicks == 2

\* setTimeout(callback, 500): timers of one delay run in the order in
\* which they were set.
setTimeout(queue, callback) == Append(queue, callback)

\* analyzeCurrentCode() while the editor holds value and the language
\* selector holds selected ("" if it holds nothing).
analyzeCurrentCode(value, selected) ==
    LET c == TrimText(value)
        lang == IF selected = "" THEN "javascript" ELSE selected
    IN  IF c = << >>
        THEN /\ message' = "warning"
             /\ UNCHANGED <<code, language, pc, analysisCache, heap, returned, computed,
                            firstSince, timers, currentAnalysis, lastRequest, now>>
        ELSE /\ Len(timers) < MaxTimers
             /\ timers' = setTimeout(timers, [code |-> c, language |-> lang, due |-> now + Delay])
             /\ lastRequest' = [code |-> c, language |-> lang]
             /\ UNCHANGED <<code, language, pc, analysisCache, heap, returned, computed,
                            firstSince, currentAnalysis, message, now>>

\* The callback of the first waiting timer, once its time has come: the
\* try block around analyzer.analyzeCode(code, language) and the catch.
TimerCallback ==
    /\ timers # << >>
    /\ timers[1].due <= now
    /\ analyzeCode(timers[1].code, timers[1].language)
    /\ timers' = Tail(timers)
    /\ IF pc' = "returned"
       THEN currentAnalysis' = returned' /\ message' = "success"
       ELSE currentAnalysis' = currentAnalysis /\ message' = "error"
    /\ UNCHANGED <<lastRequest, now>>

\* Delay ms pass.
Tick ==
    /\ now + Delay <= MaxTicks * Delay
    /\ now' = now + Delay
    /\ UNCHANGED <<code, language, pc, analysisCache, heap, returned, computed,
                   firstSince, timers, currentAnalysis, message, lastRequest>>

-----------------------------------------------------------------------------
(* Inputs and specifications *)

\* The four profiles, an identifier no object knows, and a name inherited
\* from Object.prototype.
Languages == {"javascript", "python", "java", "cpp", "ruby", "constructor"}

Line(ws, toks) == [ws |-> ws, toks |-> toks]

\* The texts of 1..n lines whose lines are drawn from the set lines.
TextsUpTo(n, lines) == UNION {[1..k -> lines] : k \in 1..n}

(* One line: a head, a middle and a tail *)
Heads == {<< >>, <<"let", " ">>, <<"int", " ">>, <<"def", " ">>, <<"function", " ">>,
          <<"public", " ">>, <<"if">>, <<"if", " ">>, <<"for">>, <<"for", " ">>,
          <<"while">>, <<"while", " ">>, <<"return">>, <<"return", " ">>,
          <<"//">>, <<"#">>, <<"x">>, <<"x", " ">>}
Mids  == {<< >>, <<"x">>, <<"foo">>, <<"=">>, <<"(">>, <<"int", " ", "foo">>,
          <<"static", " ", "int", " ", "foo">>}
Tails == {<< >>, <<"(">>, <<"(", ")">>, <<"(", "x", ")">>, <<"=", "1">>,
          <<" ", "=", " ", "foo", "(", ")">>, <<":">>, <<" ", "in", " ", "y", ":">>,
          <<"(", "x", ";", "x", "<", "1", ";", "x", ")">>}
LineSamples ==
    {l \in {h \o m \o t : h \in Heads, m \in Mids, t \in Tails} :
        l # << >> /\ WellFormed(l)}

InitLine ==
    \E l \in LineSamples, lang \in Languages : Fresh(<<Line(0, l)>>, lang)

SpecLine == InitLine /\ [][Analyze]_vars

(* A text of a few lines, blank and comment lines among them *)
MaxLines == 2
LeadingWs == {0, 1, 2, 3}
ParseMenu ==
    {<< >>,
     <<"//", " ", "x">>,
     <<"#", " ", "x">>,
     <<"let", " ", "x", " ", "=", " ", "1">>,
     <<"x", " ", "=", " ", "1">>,
     <<"foo", "(", "x", ")">>,
     <<"if", " ", "(", "x", ")">>,
     <<"for", "(", "let", " ", "i", ";", "i", ";", "i", ")">>}
ParseLines == {Line(ws, toks) : ws \in LeadingWs, toks \in ParseMenu}

InitParse ==
    \E text \in TextsUpTo(MaxLines, ParseLines), lang \in Languages : Fresh(text, lang)

SpecParse == InitParse /\ [][Analyze]_vars

(* A statement stream: javascript lines of the kinds the flowchart        *)
(* generator tells apart, at even indentation                             *)
MaxStmts == 3
Depths == {0, 1, 2}
GraphMenu ==
    {<<"if", "(", "x", ")">>,
     <<"for", "(", "x", ")">>,
     <<"while", "(", "x", ")">>,
     <<"return">>,
     <<"x", "=", "1">>}
GraphLines == {Line(2 * d, toks) : d \in Depths, toks \in GraphMenu}

InitGraph ==
    \E text \in TextsUpTo(MaxStmts, GraphLines) : Fresh(text, "javascript")

SpecGraph == InitGraph /\ [][Analyze]_vars

(* One analyzer, called again and again *)
EmptyText == <<Line(0, << >>)>>
CacheTexts == {EmptyText, <<Line(0, <<"Aa">>)>>, <<Line(0, <<"BB">>)>>}
CacheLanguages == {"javascript", "python"}

InitCache == Fresh(EmptyText, "javascript")

NextCache ==
    \/ \E c \in CacheTexts, lang \in CacheLanguages :
          analyzeCode(c, lang) /\ UNCHANGED appVars
    \/ clearCache /\ UNCHANGED appVars

SpecCache == InitCache /\ [][NextCache]_vars

(* A small javascript program: function, conditional and loop lines, with *)
(* and without boolean operators, at two depths                            *)
MaxProgramLines == 3
ProgramDepths == {0, 1}
DoLine == <<"do", " ", "{">>
EndDoLine == <<"}", " ", "while", " ", "(", "x", ")", ";">>
ProgramMenu ==
    {<<"function", " ", "foo", "(", "x", ")", " ", "{">>,
     <<"if", " ", "(", "x", ")", " ", "{">>,
     <<"if", " ", "(", "x", " ", "&&", " ", "y", " ", "||", " ", "x", ")">>,
     <<"for", " ", "(", "let", " ", "i", ";", "i", " ", "&&", " ", "x", ";", "i", ")", " ", "{">>,
     <<"while", " ", "(", "x", " ", "&&", " ", "y", ")">>,
     DoLine,
     EndDoLine,
     <<"x", " ", "=", " ", "1">>}
ProgramLines == {Line(2 * d, toks) : d \in ProgramDepths, toks \in ProgramMenu}

InitProgram ==
    \E text \in TextsUpTo(MaxProgramLines, ProgramLines) : Fresh(text, "javascript")

SpecProgram == InitProgram /\ [][Analyze]_vars

(* Lines that weigh on the quality score: a conditional with many boolean *)
(* operators, and conditionals far to the right                            *)
MaxScoreLines == 5
RECURSIVE Conjunction(_)
Conjunction(n) == IF n = 0 THEN <<"x">> ELSE <<"x", "&&">> \o Conjunction(n - 1)
LongIf == <<"if", "(">> \o Conjunction(11) \o <<")">>
ScoreLines ==
    {Line(0, <<"x", "=", "1">>), Line(0, LongIf),
     Line(20, <<"if", "(", "x", ")">>), Line(24, <<"if", "(", "x", ")">>)}

InitScore ==
    \E text \in TextsUpTo(MaxScoreLines, ScoreLines) : Fresh(text, "javascript")

SpecScore == InitScore /\ [][Analyze]_vars

(* Lines with and without the texts the security check looks for *)
MaxSecurityLines == 2
SecurityMenu ==
    {<<"eval", "(", "x", ")">>,
     <<"x", " ", "=", " ", "Eval", "(", "y", ")">>,
     <<"eval", " ", "(", "x", ")">>,
     <<"x", ".", "innerHTML", " ", "=", " ", "eval", "(", "y", ")">>,
     <<"x", ".", "innerHTML", " ", "=", " ", "y">>,
     <<"x", " ", "=", " ", "1">>,
     <<"//", " ", "eval", "(", "x", ")">>}
SecurityLines == {Line(0, toks) : toks \in SecurityMenu}
SecurityLanguages == {"javascript", "python"}

InitSecurity ==
    \E text \in TextsUpTo(MaxSecurityLines, SecurityLines), lang \in SecurityLanguages :
        Fresh(text, lang)

SpecSecurity == InitSecurity /\ [][Analyze]_vars

(* Loop lines and an assignment, at two depths: up to four loops in a text *)
MaxLoopLines == 4
LoopDepths == {0, 1}
LoopMenu ==
    {<<"for", " ", "(", "let", " ", "i", ";", "i", ";", "i", ")", " ", "{">>,
     <<"while", " ", "(", "x", ")">>,
     <<"x", " ", "=", " ", "1">>}
LoopLines == {Line(2 * d, toks) : d \in LoopDepths, toks \in LoopMenu}

InitLoops ==
    \E text \in TextsUpTo(MaxLoopLines, LoopLines) : Fresh(text, "javascript")

SpecLoops == InitLoops /\ [][Analyze]_vars

(* One line of every kind the execution steps tell apart *)
MaxStepLines == 3
StepMenu ==
    {<<"let", " ", "x", " ", "=", " ", "1">>,
     <<"x", " ", "=", " ", "1">>,
     <<"if", " ", "(", "x", ")">>,
     <<"for", " ", "(", "let", " ", "i", ";", "i", ";", "i", ")">>,
     <<"while", " ", "(", "x", ")">>,
     <<"foo", "(", "x", ")">>,
     <<"return", " ", "x">>}
StepLines == {Line(0, toks) : toks \in StepMenu}

InitSteps ==
    \E text \in TextsUpTo(MaxStepLines, StepLines) : Fresh(text, "javascript")

SpecSteps == InitSteps /\ [][Analyze]_vars

(* Blocks of one line followed by blank lines: functions of few and of    *)
(* many lines, a line far to the right, a number, a call of eval          *)
MaxQualityBlocks == 3
BlankRuns == {0, 51}
QualityMenu ==
    {Line(0, <<"function", " ", "foo", "(", "x", ")", " ", "{">>),
     Line(18, <<"if", " ", "(", "x", ")">>),
     Line(0, <<"x", " ", "=", " ", "2">>),
     Line(0, <<"x", " ", "=", " ", "1">>),
     Line(0, <<"eval", "(", "x", ")">>)}
QualityBlocks ==
    {<<line>> \o [k \in 1..n |-> Line(0, << >>)] : line \in QualityMenu, n \in BlankRuns}

\* The lines of the blocks from block k on.
RECURSIVE JoinBlocks(_, _)
JoinBlocks(blocks, k) ==
    IF k > Len(blocks) THEN << >> ELSE blocks[k] \o JoinBlocks(blocks, k + 1)

InitQuality ==
    \E blocks \in TextsUpTo(MaxQualityBlocks, QualityBlocks) :
        Fresh(JoinBlocks(blocks, 1), "javascript")

SpecQuality == InitQuality /\ [][Analyze]_vars

(* The app after its construction: the request of the example it loads    *)
(* waits (an input text of the model stands for the example), then        *)
(* requests, callbacks and the passing of time in any order                *)
AppValues ==
    {<<Line(0, << >>)>>,
     <<Line(2, << >>), Line(0, << >>)>>,
     <<Line(2, <<"Aa">>)>>,
     <<Line(0, <<"BB">>), Line(0, << >>)>>,
     <<Line(0, <<"foo", "(", "x", ")">>)>>}
AppSelections == {"", "javascript", "constructor"}

(* Comment lines before or after up to eleven assignments, behind a line *)
(* that weighs on the quality score or behind none                       *)
MaxCommentLines == 3
MaxPlainLines == 11
RECURSIVE Repeat(_, _)
Repeat(line, n) == IF n = 0 THEN << >> ELSE <<line>> \o Repeat(line, n - 1)
CommentHeads ==
    {<< >>, <<Line(0, LongIf)>>, <<Line(24, <<"if", "(", "x", ")">>)>>}
CommentMarks == {"//", "/*", "#"}
CommentedTexts ==
    LET comments(mark, c) == Repeat(Line(0, <<mark, " ", "x">>), c)
        plain(n)          == Repeat(Line(0, <<"x", " ", "=", " ", "1">>), n)
    IN  ({head \o comments(mark, c) \o plain(n) :
             head \in CommentHeads, mark \in CommentMarks,
             c \in 0..MaxCommentLines, n \in 0..MaxPlainLines}
         \cup
         {head \o plain(n) \o comments(mark, c) :
             head \in CommentHeads, mark \in CommentMarks,
             c \in 0..MaxCommentLines, n \in 0..MaxPlainLines})
        \ {<< >>}
CommentLanguages == {"javascript", "python"}

InitComments ==
    \E text \in CommentedTexts, lang \in CommentLanguages : Fresh(text, lang)

SpecComments == InitComments /\ [][Analyze]_vars

InitApp ==
    /\ code = << >>
    /\ language = "javascript"
    /\ pc = "idle"
    /\ analysisCache = << >>
    /\ heap = << >>
    /\ returned = 0
    /\ computed = FALSE
    /\ firstSince = << >>
    /\ \E value \in AppValues :
          /\ TrimText(value) # << >>
          /\ timers = <<[code |-> TrimText(value), language |-> "javascript", due |-> Delay]>>
          /\ lastRequest = [code |-> TrimText(value), language |-> "javascript"]
    /\ currentAnalysis = 0
    /\ message = "none"
    /\ now = 0

NextApp ==
    \/ \E value \in AppValues, selected \in AppSelections : analyzeCurrentCode(value, selected)
    \/ TimerCallback
    \/ Tick

SpecApp == InitApp /\ [][NextApp]_vars

-----------------------------------------------------------------------------
(* Properties *)

\* The analysis object a finished call returned.
Result == heap[returned]

Done == pc = "returned"

(* ---- The statement stream (SpecParse, SpecLine) ---- *)

\* A line that holds no token is blank; a comment line opens with the
\* comment marker of the profile in use ('#' for python, '//' or '/*' for
\* the others, and for every identifier that falls back to javascript).
CommentMarkers(lang) == IF lang = "python" THEN {"#"} ELSE {"//", "/*"}
IsBlank(line) == line.toks = << >>
IsCommentLine(lang, line) == ~IsBlank(line) /\ line.toks[1] \in CommentMarkers(lang)
Retained(lang, text) ==
    {k \in 1..Len(text) : ~IsBlank(text[k]) /\ ~IsCommentLine(lang, text[k])}

\* C1: parseCode yields exactly one statement per line that is neither
\* blank nor a comment line, in source order: the statements' 1-based line
\* numbers are strictly increasing and are exactly the numbers of those
\* lines, each statement carries the trimmed text of its line, and its
\* indent is floor(leading whitespace / 2).
C1_OneStatementPerRetainedLine ==
    (pc # "ready" /\ language \notin InheritedNames) =>
        /\ Done
        /\ LET st == Result.statements
           IN  /\ Len(st) = Cardinality(Retained(language, code))
               /\ \A i \in 1..Len(st) :
                    /\ st[i].line \in Retained(language, code)
                    /\ i > 1 => st[i - 1].line < st[i].line
                    /\ st[i].code = code[st[i].line].toks
                    /\ st[i].indent = code[st[i].line].ws \div 2

\* A two-line text with a comment line and a statement behind an odd number
\* of blanks has been parsed.
C1_Witness ==
    /\ Done
    /\ language \notin InheritedNames
    /\ Len(code) = 2
    /\ IsCommentLine(language, code[1])
    /\ code[2].ws = 3
    /\ Len(Result.statements) = 1
    /\ Result.statements[1].line = 2
    /\ Result.statements[1].indent = 1

\* The rules of the classifier in their documented order, and whether the
\* rule of a profile matches a line: the call rule is the call expression,
\* every other rule is the profile's pattern of that name.
RuleOrder ==
    <<"variable", "function", "if", "for", "while", "return", "call", "assignment">>
RuleMatches(patterns, rule, l) ==
    IF rule = "call" THEN CallMatch(l, 1).ok
    ELSE Has(patterns, rule) /\ Test(patterns[rule], l)
MatchingRules(patterns, l) ==
    {r \in 1..Len(RuleOrder) : RuleMatches(patterns, RuleOrder[r], l)}
FirstRuleKind(patterns, l) ==
    IF MatchingRules(patterns, l) = {} THEN "statement"
    ELSE RuleOrder[CHOOSE r \in MatchingRules(patterns, l) :
                       \A q \in MatchingRules(patterns, l) : r <= q]

\* C2: the kind of a statement is the kind of the first rule, in the order
\* variable, function, if, for, while, return, call, assignment, that
\* matches its line, and 'statement' when none matches; classifying a line
\* never fails.
C2_FirstMatchingRule ==
    (pc # "ready" /\ language \notin InheritedNames) =>
        /\ Done
        /\ \A i \in 1..Len(Result.statements) :
             Result.statements[i].type =
                 FirstRuleKind(getLanguagePatterns(language),
                               code[Result.statements[i].line].toks)

\* A line that both the call rule and the assignment rule match has been
\* classified as a call.
C2_Witness ==
    /\ Done
    /\ language = "javascript"
    /\ Len(Result.statements) = 1
    /\ Cardinality(MatchingRules(getLanguagePatterns(language), code[1].toks)) = 2
    /\ RuleMatches(getLanguagePatterns(language), "assignment", code[1].toks)
    /\ Result.statements[1].type = "call"

\* C3: a profile identifier that is none of javascript, python, java, cpp
\* does not make the analysis fail, and yields the statement stream the
\* javascript profile yields for the same text.
C3_UnknownProfileAsJavascript ==
    (pc # "ready" /\ language \notin DOMAIN PatternTable) =>
        /\ Done
        /\ Result.statements = parseCode("javascript", code).statements

(* ---- Empty input (SpecParse) ---- *)

AllBlank(text) == \A k \in 1..Len(text) : IsBlank(text[k])

\* C4: a text that is empty or holds only whitespace is analysed without
\* an error, to 0 statements, 0 execution steps, cyclomatic complexity 1
\* and a graph of exactly the start node, the end node and the one edge
\* from start to end.
C4_EmptyInput ==
    (pc # "ready" /\ AllBlank(code)) =>
        /\ Done
        /\ Result.statements = << >>
        /\ Result.executionSteps = << >>
        /\ Result.metrics.cyclomaticComplexity = 1
        /\ Len(Result.flowchartCode.nodes) = 2
        /\ Result.flowchartCode.nodes[1].type = "start"
        /\ Result.flowchartCode.nodes[2].type = "end"
        /\ Result.flowchartCode.connections =
               <<Plain(Result.flowchartCode.nodes[1].id, Result.flowchartCode.nodes[2].id)>>

\* A text of two lines that hold whitespace only has been analysed.
C4_Witness ==
    /\ Done
    /\ Len(code) = 2
    /\ AllBlank(code)
    /\ code[1].ws > 0
    /\ Len(Result.flowchartCode.nodes) = 2

\* C5 as stated: for an empty or whitespace-only text the time complexity
\* of the performance summary is the text N/A.
C5_EmptyInputNotApplicable ==
    (Done /\ AllBlank(code)) => Result.performance.timeComplexity = <<"N/A">>

\* C5: for an empty or whitespace-only text the time complexity of the
\* performance summary is the text O(1), the estimate of a text without
\* loops.
C5_EmptyInputConstantTime ==
    (Done /\ AllBlank(code)) => Result.performance.timeComplexity = <<"O(1)">>

\* The empty text (one line without a character) has been analysed under
\* the python profile.
C5_Witness ==
    /\ Done
    /\ code = <<Line(0, << >>)>>
    /\ language = "python"
    /\ Result.performance.timeComplexity = <<"O(1)">>

(* ---- The cache (SpecCache) ---- *)

\* C6: a call with a (language, text) pair that an earlier call already
\* had, with no clearCache in between, is a cache hit: it returns the very
\* object the first of those calls returned, computes nothing, and leaves
\* the cache and the objects as they were.
C6_SecondCallIsCacheHit ==
    [][(pc' = "returned" /\ <<code', language'>> \in DOMAIN firstSince) =>
           /\ returned' = firstSince[<<code', language'>>]
           /\ ~computed'
           /\ analysisCache' = analysisCache
           /\ heap' = heap]_vars

\* The empty text was analysed, another analysis was made, and the empty
\* text was analysed again: the first object came back.
C6_Witness ==
    /\ Done
    /\ ~computed
    /\ code = EmptyText
    /\ <<code, language>> \in DOMAIN firstSince
    /\ returned = firstSince[<<code, language>>]
    /\ returned < Len(heap)

\* C7: clearCache leaves the cache empty, and the next analyzeCode
\* recomputes the analysis, returns an object that did not exist before,
\* and stores that object under the key of the call.
C7_ClearThenRecompute ==
    [][/\ pc' = "cleared" => analysisCache' = << >>
       /\ (pc = "cleared" /\ pc' = "returned") =>
            /\ computed'
            /\ returned' \notin 1..Len(heap)
            /\ \E random \in RandomRuns(StyledCount(parseCode(language', code').statements)) :
                 heap' = Append(heap, completeAnalysis(parseCode(language', code'), random))
            /\ returned' = Len(heap')
            /\ DOMAIN analysisCache' = {cacheKey(language', code')}
            /\ analysisCache'[cacheKey(language', code')] = returned']_vars

\* An input was analysed a second time into a second, equal object, which
\* is the only entry of the cache.
C7_Witness ==
    /\ Done
    /\ computed
    /\ \E j \in 1..(returned - 1) : heap[j] = heap[returned]
    /\ DOMAIN analysisCache = {cacheKey(language, code)}
    /\ analysisCache[cacheKey(language, code)] = returned

(* ---- The control-flow graph (SpecGraph) ---- *)

Nodes == Result.flowchartCode.nodes
Edges == Result.flowchartCode.connections
EndId == Nodes[Len(Nodes)].id
EdgesFrom(id) == {k \in 1..Len(Edges) : Edges[k].from = id}
EdgesTo(id) == {k \in 1..Len(Edges) : Edges[k].to = id}

\* C8: every node except the end node has at least one outgoing edge, the
\* end node has none, and no edge leads to the start node.
C8_Degrees ==
    Done =>
        /\ \A i \in 1..(Len(Nodes) - 1) : EdgesFrom(Nodes[i].id) # {}
        /\ EdgesFrom(EndId) = {}
        /\ EdgesTo(Nodes[1].id) = {}

\* A graph with a branch, a loop with its back edge and a return node.
C8_Witness ==
    /\ Done
    /\ \E k \in 1..Len(Edges) : Edges[k].label = "Loop"
    /\ \E k \in 1..Len(Edges) : Edges[k].label = "No"
    /\ \E i \in 1..Len(Nodes) : Nodes[i].type = "return"

\* C9: a stream of n statements gives n + 2 nodes with pairwise distinct
\* ids: the start node first, one node per statement in stream order, the
\* end node last; start and end are the only terminal-shaped nodes; there
\* are at least (number of nodes - 1) edges.
C9_NodesOfStream ==
    Done =>
        LET n == Len(Result.statements)
        IN  /\ Len(Nodes) = n + 2
            /\ \A i, j \in 1..Len(Nodes) : i # j => Nodes[i].id # Nodes[j].id
            /\ Nodes[1].type = "start"
            /\ Nodes[n + 2].type = "end"
            /\ \A k \in 1..n : /\ Nodes[k + 1].type \notin {"start", "end"}
                               /\ Nodes[k + 1].statement = Result.statements[k]
            /\ {i \in 1..Len(Nodes) : Nodes[i].shape = "ellipse"} = {1, n + 2}
            /\ Len(Edges) >= Len(Nodes) - 1

\* A stream of three statements whose graph has more edges than nodes.
C9_Witness ==
    /\ Done
    /\ Len(Result.statements) = 3
    /\ Len(Nodes) = 5
    /\ Len(Edges) > Len(Nodes)

ReturnPositions == {i \in 1..Len(Nodes) : Nodes[i].type = "return"}

\* C10 as stated: every return node has two outgoing edges, the sequential
\* edge to the next node and an edge to the end node.
C10_ReturnKeepsSequentialEdge ==
    Done =>
        \A i \in ReturnPositions :
            /\ Cardinality(EdgesFrom(Nodes[i].id)) = 2
            /\ \E k \in EdgesFrom(Nodes[i].id) : Edges[k].to = Nodes[i + 1].id
            /\ \E k \in EdgesFrom(Nodes[i].id) : Edges[k].to = EndId

\* C10: a return node gets one edge of its own, an unlabeled edge straight
\* to the end node, in place of the default sequential edge: no edge leads
\* from it to the next node unless that node is the end node, and the only
\* other edges that can leave it are 'Loop' back edges of loops whose body
\* it closes.
C10_ReturnOnlyToEnd ==
    Done =>
        \A i \in ReturnPositions :
            /\ \E k \in EdgesFrom(Nodes[i].id) :
                 /\ Edges[k] = Plain(Nodes[i].id, EndId)
                 /\ \A q \in EdgesFrom(Nodes[i].id) : q # k => Edges[q].label = "Loop"
            /\ i + 1 < Len(Nodes) =>
                 \A k \in EdgesFrom(Nodes[i].id) : Edges[k].to # Nodes[i + 1].id

\* A return node that closes a loop body and is followed by a further
\* statement: it has its edge to the end node and a back edge.
C10_Witness ==
    /\ Done
    /\ \E i \in ReturnPositions :
         /\ i + 1 < Len(Nodes)
         /\ \E k \in EdgesFrom(Nodes[i].id) : Edges[k].label = "Loop"
         /\ \E k \in EdgesFrom(Nodes[i].id) : Edges[k].to = EndId

\* The positions of the statement nodes after position i whose statement
\* is at most as deep as the one at i, and the node the forward scan of
\* the specification ends at: the first of them, or the end node.
SameOrShallowerAfter(i) ==
    {j \in (i + 1)..(Len(Nodes) - 1) :
        Nodes[j].statement.indent <= Nodes[i].statement.indent}
ForwardTarget(i) ==
    IF SameOrShallowerAfter(i) = {} THEN EndId
    ELSE Nodes[CHOOSE j \in SameOrShallowerAfter(i) :
                   \A q \in SameOrShallowerAfter(i) : j <= q].id
EdgesLabelled(i, label) ==
    {k \in EdgesFrom(Nodes[i].id) : Edges[k].label = label}

\* C11: the 'No' edge of a conditional node and the 'Exit' edge of a loop
\* node lead to the first statement after the node, the immediately
\* following one included, that is at most as deep as the node, or to the
\* end node when there is none; the 'Yes' / 'Continue' edge leads to the
\* next node.
C11_ForwardScanFromNextStatement ==
    Done =>
        \A i \in 2..(Len(Nodes) - 1) :
            /\ Nodes[i].type = "if" =>
                 /\ \A k \in EdgesLabelled(i, "No") : Edges[k].to = ForwardTarget(i)
                 /\ \A k \in EdgesLabelled(i, "Yes") : Edges[k].to = Nodes[i + 1].id
            /\ Nodes[i].type \in {"for", "while"} =>
                 /\ \A k \in EdgesLabelled(i, "Exit") : Edges[k].to = ForwardTarget(i)
                 /\ \A k \in EdgesLabelled(i, "Continue") : Edges[k].to = Nodes[i + 1].id

\* The statements that follow position i without a break and are deeper
\* than the statement at i: the body of a loop at i.
InBody(i, j) ==
    \A q \in (i + 1)..j :
        q < Len(Nodes) /\ Nodes[q].statement.indent > Nodes[i].statement.indent
Body(i) == {j \in (i + 1)..(Len(Nodes) - 1) : InBody(i, j)}
LoopEdgesTo(i) == {k \in EdgesTo(Nodes[i].id) : Edges[k].label = "Loop"}
LoopPositions == {i \in 1..Len(Nodes) : Nodes[i].type \in {"for", "while"}}

\* C12: a loop node has a 'Loop' back edge exactly when the statement right
\* after it is deeper than the loop; the edge starts at the last statement
\* of the unbroken run of deeper statements after the loop, and a loop node
\* has at most one such edge.  'Loop' edges lead to loop nodes only.
C12_LoopBackEdge ==
    Done =>
        /\ \A i \in LoopPositions :
             IF Body(i) = {}
             THEN LoopEdgesTo(i) = {}
             ELSE /\ Cardinality(LoopEdgesTo(i)) = 1
                  /\ \A k \in LoopEdgesTo(i) :
                       \E j \in Body(i) :
                           /\ \A q \in Body(i) : q <= j
                           /\ Edges[k].from = Nodes[j].id
        /\ \A k \in 1..Len(Edges) :
             Edges[k].label = "Loop" =>
                 \E i \in LoopPositions : Edges[k].to = Nodes[i].id

\* A loop with a body of two statements, followed by nothing else, and a
\* back edge from the second of them.
C12_Witness ==
    /\ Done
    /\ Len(Nodes) = 5
    /\ 2 \in LoopPositions
    /\ Body(2) = {3, 4}
    /\ \E k \in LoopEdgesTo(2) : Edges[k].from = Nodes[4].id

\* The ids of the nodes from which a node of the set reached is reached in
\* at most n steps along the edges.
RECURSIVE ReachBack(_, _)
ReachBack(reached, n) ==
    IF n = 0 \/ reached = {} THEN reached
    ELSE ReachBack(reached \cup
                   {Edges[k].from : k \in {q \in 1..Len(Edges) : Edges[q].to \in reached}},
                   n - 1)
ReachEnd == ReachBack({EndId}, Len(Nodes))

\* C13: the end node is the only node without an outgoing edge, and from
\* every node a directed path leads to the end node.
C13_EndReachableFromEveryNode ==
    Done =>
        /\ {i \in 1..Len(Nodes) : EdgesFrom(Nodes[i].id) = {}} = {Len(Nodes)}
        /\ \A i \in 1..Len(Nodes) : Nodes[i].id \in ReachEnd

\* A graph with a cycle: a loop whose body ends in a return node that also
\* carries the back edge.
C13_Witness ==
    /\ Done
    /\ Len(Nodes) = 5
    /\ \E k \in 1..Len(Edges) :
         /\ Edges[k].label = "Loop"
         /\ \E i \in ReturnPositions : Edges[k].from = Nodes[i].id

(* ---- Metrics (SpecProgram, SpecParse, SpecScore) ---- *)

Statements == Result.statements
OfKind(kinds) == {k \in 1..Len(Statements) : Statements[k].type \in kinds}

\* The number of '&&' and '||' in the condition texts of the statements of
\* the given kinds, from statement k on.
RECURSIVE BoolOpsIn(_, _)
BoolOpsIn(kinds, k) ==
    IF k > Len(Statements) THEN 0
    ELSE (IF Statements[k].type \in kinds /\ "condition" \in DOMAIN Statements[k]
          THEN CountToken(Statements[k].condition, "&&", 1)
               + CountToken(Statements[k].condition, "||", 1)
          ELSE 0)
         + BoolOpsIn(kinds, k + 1)

\* C14 as stated: cyclomaticComplexity is 1 + the number of conditional,
\* for-loop and while-loop statements + the number of '&&' and '||' in the
\* condition texts of the conditional statements, and of no other kind.
C14_BoolOpsOfConditionalsOnly ==
    Done =>
        Result.metrics.cyclomaticComplexity =
            1 + Cardinality(OfKind({"if", "for", "while"})) + BoolOpsIn({"if"}, 1)

\* C14: cyclomaticComplexity is 1 + the number of conditional, for-loop
\* and while-loop statements + the number of '&&' and '||' in the condition
\* texts of the conditional and the while-loop statements; a for-loop has
\* no condition text and its header adds nothing.
C14_BoolOpsOfConditions ==
    Done =>
        Result.metrics.cyclomaticComplexity =
            1 + Cardinality(OfKind({"if", "for", "while"}))
              + BoolOpsIn({"if", "while"}, 1)

\* A conditional with two operators, a while loop with one and a for loop
\* whose header holds one: 1 + 3 + 3.
C14_Witness ==
    /\ Done
    /\ Cardinality(OfKind({"if"})) = 1
    /\ Cardinality(OfKind({"while"})) = 1
    /\ Cardinality(OfKind({"for"})) = 1
    /\ BoolOpsIn({"if"}, 1) = 2
    /\ BoolOpsIn({"while"}, 1) = 1
    /\ Result.metrics.cyclomaticComplexity = 7

\* C15: metrics.cyclomaticComplexity is at least 1, for every text and
\* every profile.
C15_CyclomaticAtLeastOne ==
    Done => Result.metrics.cyclomaticComplexity >= 1

\* A text of two statements, neither a conditional nor a loop, analysed
\* under the python profile.
C15_Witness ==
    /\ Done
    /\ language = "python"
    /\ Len(Result.statements) = 2
    /\ Result.controlStructures = << >>
    /\ Result.metrics.cyclomaticComplexity = 1

\* The parts of the quality score.
ComplexityPenalty(m) ==
    IF m.cyclomaticComplexity > 10 THEN 5 * (m.cyclomaticComplexity - 10) ELSE 0
NestingPenalty(m) ==
    IF m.maxNestingDepth > 4 THEN 10 * (m.maxNestingDepth - 4) ELSE 0
RatioBonus(m) ==
    IF /\ m.codeToCommentRatio.num > 3 * m.codeToCommentRatio.den
       /\ m.codeToCommentRatio.num < 10 * m.codeToCommentRatio.den
    THEN 10 ELSE 0
Clamp(v) == IF v < 0 THEN 0 ELSE IF v > 100 THEN 100 ELSE v

Loops == OfKind({"for", "while"})

\* The loop-depth counter of the specification from statement k on: entered
\* holds the indentDepth recorded at the entry of every loop that is still
\* open, and deepest the maximum of the counter so far.  A loop statement
\* opens a loop; another statement that lies below the depth recorded for
\* the innermost open loop closes it.
RECURSIVE DepthWithExits(_, _, _)
DepthWithExits(k, entered, deepest) ==
    IF k > Len(Statements) THEN deepest
    ELSE IF Statements[k].type \in {"for", "while"}
    THEN DepthWithExits(k + 1, Append(entered, Statements[k].indent),
                        IF Len(entered) + 1 > deepest THEN Len(entered) + 1 ELSE deepest)
    ELSE IF entered # << >> /\ Statements[k].indent < entered[Len(entered)]
    THEN DepthWithExits(k + 1, SubSeq(entered, 1, Len(entered) - 1), deepest)
    ELSE DepthWithExits(k + 1, entered, deepest)

\* The complexity text of a loop depth.
ComplexityText(d) ==
    CASE d = 0 -> <<"O(1)">>
      [] d = 1 -> <<"O(n)">>
      [] d = 2 -> <<"O(n²)">>
      [] d = 3 -> <<"O(n³)">>
      [] OTHER -> <<"O(n^">> \o NumStr(d) \o <<")">>

\* C17: the time complexity is the text of the maximum of a loop-depth
\* counter that grows by one at every for-loop and while-loop statement and
\* shrinks by one when a later statement lies below the depth recorded at
\* the loop's entry; so two loops with a shallower statement between them
\* give O(n).
C17_DepthShrinksAfterLoop ==
    Done =>
        Result.performance.timeComplexity = ComplexityText(DepthWithExits(1, << >>, 0))

\* C18: a text with one function definition, one conditional without
\* boolean operators, one for loop and no other loop has cyclomatic
\* complexity 3, time complexity O(n) and no nested-loop pattern.
C18_IterativeFibonacci ==
    (/\ Done
     /\ Cardinality(OfKind({"function"})) = 1
     /\ Cardinality(OfKind({"if"})) = 1
     /\ BoolOpsIn({"if"}, 1) = 0
     /\ Cardinality(OfKind({"for"})) = 1
     /\ OfKind({"while"}) = {}) =>
        /\ Result.metrics.cyclomaticComplexity = 3
        /\ Result.performance.timeComplexity = <<"O(n)">>
        /\ ~SomeOfType(Result.patterns, "nested_loops")

\* A function definition, a conditional in its body and a for loop after
\* the conditional have been analysed.
C18_Witness ==
    /\ Done
    /\ Len(Statements) = 3
    /\ Statements[1].type = "function" /\ Statements[1].indent = 0
    /\ Statements[2].type = "if" /\ Statements[2].indent = 1
    /\ Statements[3].type = "for" /\ Statements[3].indent = 1
    /\ Result.metrics.cyclomaticComplexity = 3

\* The shapes of a bubble sort: an outer for loop at statement i, or an
\* outer do-while loop that opens at statement i and closes after j at the
\* depth of i, with a for loop at j that is deeper than statement i; the
\* text has no further loop.
OuterFor(i, j) ==
    /\ Statements[i].type = "for"
    /\ Loops = {i, j}
OuterDoWhile(i, j) ==
    /\ Statements[i].code = DoLine
    /\ \E k \in (j + 1)..Len(Statements) :
         Statements[k].code = EndDoLine /\ Statements[k].indent = Statements[i].indent
    /\ Loops = {j}
InnerFor(i, j) ==
    /\ i < j
    /\ Statements[j].type = "for"
    /\ Statements[j].indent > Statements[i].indent
BubbleSortResult ==
    /\ SomeOfType(Result.patterns, "nested_loops")
    /\ Result.performance.timeComplexity = <<"O(n²)">>
    /\ SomeOfType(Result.performance.optimizationSuggestions, "algorithm_optimization")

\* C19: for a bubble sort whose outer loop is a for loop or a do-while
\* loop, with an inner for loop strictly nested in it, the nested-loop
\* pattern is present, the time complexity is O(n²) and an optimization
\* suggestion of type algorithm_optimization is present.
C19_BubbleSort ==
    Done =>
        \A i, j \in 1..Len(Statements) :
            (InnerFor(i, j) /\ (OuterFor(i, j) \/ OuterDoWhile(i, j))) => BubbleSortResult

(* ---- Security findings (SpecSecurity) ---- *)

\* The statements whose text holds a word that ends in 'eval', in any
\* case, right before '(' and those whose text holds the word innerHTML.
WithEvalCall ==
    {k \in 1..Len(Statements) :
        \E p \in 1..Len(Statements[k].code) :
            /\ Statements[k].code[p] \in {"eval", "Eval"}
            /\ At(Statements[k].code, p + 1) = "("}
WithInnerHtml ==
    {k \in 1..Len(Statements) :
        \E p \in 1..Len(Statements[k].code) : Statements[k].code[p] = "innerHTML"}
Issues == Result.security.issues
IssuesOfType(t) == {q \in 1..Len(Issues) : Issues[q].type = t}

\* C20: every statement whose text contains 'eval(' in any case yields one
\* finding of high severity and every statement whose text contains
\* 'innerhtml' in any case one of medium severity, and there are no other
\* findings; the risk level is low for 0 findings, medium for 1 or 2 and
\* high for more, so one dynamic-evaluation statement alone gives exactly
\* one finding and the level medium.
C20_SecurityRiskLevel ==
    Done =>
        /\ Len(Issues) = Cardinality(WithEvalCall) + Cardinality(WithInnerHtml)
        /\ \A k \in WithEvalCall :
             Cardinality({q \in IssuesOfType("eval_usage") :
                            Issues[q].line = Statements[k].line}) = 1
        /\ \A k \in WithInnerHtml :
             Cardinality({q \in IssuesOfType("innerHTML_usage") :
                            Issues[q].line = Statements[k].line}) = 1
        /\ \A q \in 1..Len(Issues) :
             \/ Issues[q].type = "eval_usage" /\ Issues[q].severity = "high"
             \/ Issues[q].type = "innerHTML_usage" /\ Issues[q].severity = "medium"
        /\ Result.security.riskLevel =
               (IF Len(Issues) = 0 THEN "low"
                ELSE IF Len(Issues) \in {1, 2} THEN "medium" ELSE "high")
        /\ (Cardinality(WithEvalCall) = 1 /\ WithInnerHtml = {}) =>
               Len(Issues) = 1 /\ Result.security.riskLevel = "medium"

\* Two statements of which one calls eval and the other does nothing of
\* the kind: one finding, level medium.
C20_Witness ==
    /\ Done
    /\ Len(Statements) = 2
    /\ Cardinality(WithEvalCall) = 1
    /\ WithInnerHtml = {}
    /\ Len(Issues) = 1
    /\ Issues[1].severity = "high"
    /\ Result.security.riskLevel = "medium"

-----------------------------------------------------------------------------
(* ---- Optimization suggestions (SpecLoops) ---- *)

Suggestions == Result.performance.optimizationSuggestions

AlgorithmSuggestions ==
    {q \in 1..Len(Suggestions) :
        Suggestions[q].type = "algorithm_optimization" /\ Suggestions[q].priority = "high"}

\* C21: when the estimated time complexity is quadratic or worse (loop
\* depth 2 or more, depths above 3 included) the optimization suggestions
\* hold a high-priority algorithm_optimization suggestion; when it is O(1)
\* or O(n) they hold none.
C21_SuggestionForQuadraticOrWorse ==
    Done =>
        IF Result.performance.timeComplexity \in {<<"O(1)">>, <<"O(n)">>}
        THEN AlgorithmSuggestions = {}
        ELSE AlgorithmSuggestions # {}

-----------------------------------------------------------------------------
(* ---- Execution steps (SpecSteps) ---- *)

Steps == Result.executionSteps

\* The memory events of a step that create something.
Creations(step) ==
    {q \in 1..Len(step.memoryChanges) : step.memoryChanges[q].action = "create"}

\* category, weight and number of memory events of a step.
StepTuple(step) == <<step.category, step.complexity, Len(step.memoryChanges)>>

\* C22: there is one execution step per statement, in the order of the
\* statements; step i has stepNumber i and the kind and line of statement
\* i.  A variable declaration gives category memory, weight 1 and one
\* create event; a conditional gives control, weight 2 and no event; a for
\* loop gives control, weight 3 and one create event for its loop variable
\* if it has one; a call gives execution, weight 1 and no event; a return
\* gives control, weight 1 and no event.
C22_OneStepPerStatement ==
    Done =>
        /\ Len(Steps) = Len(Statements)
        /\ \A i \in 1..Len(Steps) :
             LET step == Steps[i]
                 st == Statements[i]
             IN  /\ step.stepNumber = i
                 /\ step.type = st.type
                 /\ step.line = st.line
                 /\ st.type = "variable" =>
                        /\ StepTuple(step) = <<"memory", 1, 1>>
                        /\ Creations(step) = {1}
                        /\ step.memoryChanges[1].variable = st.name
                 /\ st.type = "if" => StepTuple(step) = <<"control", 2, 0>>
                 /\ st.type = "for" =>
                        IF "loopVar" \in DOMAIN st /\ st.loopVar # ""
                        THEN /\ StepTuple(step) = <<"control", 3, 1>>
                             /\ Creations(step) = {1}
                             /\ step.memoryChanges[1].variable = st.loopVar
                        ELSE StepTuple(step) = <<"control", 3, 0>>
                 /\ st.type = "call" => StepTuple(step) = <<"execution", 1, 0>>
                 /\ st.type = "return" => StepTuple(step) = <<"control", 1, 0>>

\* A declaration, a for loop and a return, in this order: three steps,
\* numbered 1, 2, 3, on lines 1, 2, 3.
C22_Witness ==
    /\ Done
    /\ Len(Statements) = 3
    /\ <<Statements[1].type, Statements[2].type, Statements[3].type>>
           = <<"variable", "for", "return">>
    /\ <<Steps[1].stepNumber, Steps[2].stepNumber, Steps[3].stepNumber>> = <<1, 2, 3>>
    /\ <<Steps[1].line, Steps[2].line, Steps[3].line>> = <<1, 2, 3>>
    /\ Len(Steps[2].memoryChanges) = 1
    /\ Steps[3].category = "control"

-----------------------------------------------------------------------------
(* ---- Quality rating (SpecQuality) ---- *)

\* The findings that the detectors report as issues: those of the quality
\* group and those of the security group.
ReportedIssues == Len(Result.quality.issues) + Len(Result.security.issues)

RatingOf(count) ==
    IF count = 0 THEN "excellent"
    ELSE IF count \in 1..2 THEN "good"
    ELSE IF count \in 3..5 THEN "fair"
    ELSE "needs_improvement"

\* C23: the overall quality rating follows from the number of all the
\* issues the analysis reports: none gives excellent, 1 or 2 good, 3 to 5
\* fair, more than 5 needs_improvement; an analysis that reports an issue
\* is never rated excellent.
C23_RatingFromAllIssues ==
    Done =>
        /\ Result.quality.overallRating = RatingOf(ReportedIssues)
        /\ ReportedIssues > 0 => Result.quality.overallRating # "excellent"

-----------------------------------------------------------------------------
(* ---- The cache and the text (SpecCache) ---- *)

\* What a new analyzer may return for (c, lang).
FreshAnalyses(c, lang) ==
    {completeAnalysis(parseCode(lang, c), random) :
        random \in RandomRuns(StyledCount(parseCode(lang, c).statements))}

\* C24: after any sequence of analyzeCode and clearCache calls on one
\* analyzer, the analysis that analyzeCode(code, language) returns is the
\* analysis of that code under that language, equal to what a new analyzer
\* computes for the same arguments, also when an earlier call analysed
\* another text of the same hash ("Aa" and "BB") under the same language.
C24_ResultIsOfTheCodeGiven ==
    Done => Result \in FreshAnalyses(code, language)

-----------------------------------------------------------------------------
(* ---- One input, one analysis (SpecGraph) ---- *)

\* C25: the analysis is a function of (code, language): computations of
\* the same input that share no cache entry give results that are equal in
\* every field, the flowchart text with the linkStyle lines of its 'Yes',
\* 'No', 'Continue', 'Exit' and 'Loop' edges included.  So the result of a
\* computation is the only analysis its input can give.
C25_OneAnalysisPerInput ==
    (Done /\ computed) => FreshAnalyses(code, language) = {Result}

-----------------------------------------------------------------------------
(* ---- Reachability from the start node (SpecGraph) ---- *)

\* The ids of the nodes that a path of at most n edges reaches from a node
\* of reached.
RECURSIVE ReachForward(_, _)
ReachForward(reached, n) ==
    LET next == reached \cup
                {Edges[k].to : k \in {q \in 1..Len(Edges) : Edges[q].from \in reached}}
    IN  IF n = 0 \/ next = reached THEN reached ELSE ReachForward(next, n - 1)
ReachStart == ReachForward({Nodes[1].id}, Len(Nodes))

Unreached ==
    LET reached == ReachStart
    IN  {j \in 1..Len(Nodes) : Nodes[j].id \notin reached}
WithoutEntry == {j \in 1..Len(Nodes) : EdgesTo(Nodes[j].id) = {}}

\* C26 as stated: every node is reachable from the start node along
\* directed edges, and the start node is the only node without an incoming
\* edge, also when a statement directly follows a return statement.
C26_EveryNodeReachableFromStart ==
    Done => Unreached = {} /\ WithoutEntry = {1}

\* C26: the start node has no incoming edge, and any other node without
\* an incoming edge directly follows a return node; a node that no path
\* from the start node reaches lies after a return node, and the first
\* such node directly follows one.  The end node is always reached, and in
\* a graph without a return node every node is.
C26_ReachableUnlessAfterReturn ==
    Done =>
        LET unreached    == Unreached
            withoutEntry == WithoutEntry
        IN  /\ 1 \in withoutEntry
            /\ \A j \in withoutEntry \ {1} : j - 1 \in ReturnPositions
            /\ \A j \in unreached : \E i \in ReturnPositions : i < j
            /\ \A j \in unreached :
                 (\A q \in unreached : j <= q) => j - 1 \in ReturnPositions
            /\ Len(Nodes) \notin unreached
            /\ ReturnPositions = {} => unreached = {} /\ withoutEntry = {1}

\* A return, then a loop with a body: the loop node has an incoming edge,
\* the back edge of its body, and yet no path from the start node reaches
\* it.
C26_Witness ==
    /\ Done
    /\ Len(Nodes) = 5
    /\ ReturnPositions = {2}
    /\ Unreached = {3, 4}
    /\ WithoutEntry = {1}

-----------------------------------------------------------------------------
(* ---- The direction of the edges (SpecGraph) ---- *)

\* The position in stream order of the node with the given id.
PositionOf(id) == CHOOSE j \in 1..Len(Nodes) : Nodes[j].id = id

\* C27: every edge other than a 'Loop' edge leads from a node to a node
\* later in stream order, and every 'Loop' edge leads from a node to a loop
\* node earlier in stream order; so the graph without its 'Loop' edges has
\* no cycle, and no edge leads from a node to itself.
C27_EdgeDirection ==
    Done =>
        \A k \in 1..Len(Edges) :
            /\ \E j \in 1..Len(Nodes) : Nodes[j].id = Edges[k].from
            /\ \E j \in 1..Len(Nodes) : Nodes[j].id = Edges[k].to
            /\ Edges[k].from # Edges[k].to
            /\ IF Edges[k].label = "Loop"
               THEN /\ PositionOf(Edges[k].to) < PositionOf(Edges[k].from)
                    /\ PositionOf(Edges[k].to) \in LoopPositions
               ELSE PositionOf(Edges[k].from) < PositionOf(Edges[k].to)

\* A loop with a body and a statement after it: a back edge, and an exit
\* edge that skips the body to a node that is not the end node.
C27_Witness ==
    /\ Done
    /\ Len(Nodes) = 5
    /\ \E k \in 1..Len(Edges) :
          /\ Edges[k].label = "Loop"
          /\ PositionOf(Edges[k].from) = 3 /\ PositionOf(Edges[k].to) = 2
    /\ \E k \in 1..Len(Edges) :
          /\ Edges[k].label = "Exit"
          /\ PositionOf(Edges[k].from) = 2 /\ PositionOf(Edges[k].to) = 4

-----------------------------------------------------------------------------
(* ---- The loop-depth counter (SpecLoops) ---- *)

\* C28: the loop-depth counter of estimateTimeComplexity never decreases:
\* the exponent of the time complexity is the number of for-loop and
\* while-loop statements of the stream, whatever their indentation and
\* whatever stands between them: O(1) for none, O(n), O(n²), O(n³) for 1,
\* 2, 3 and O(n^d) for d > 3.
C28_ExponentIsLoopCount ==
    Done => Result.performance.timeComplexity = ComplexityText(Cardinality(Loops))

\* A loop, a shallower assignment after it, and two more loops: O(n³).
C28_Witness ==
    /\ Done
    /\ Len(Statements) = 4
    /\ Loops = {1, 3, 4}
    /\ Statements[2].indent < Statements[1].indent
    /\ Statements[3].indent = Statements[2].indent
    /\ Result.performance.timeComplexity = <<"O(n³)">>

-----------------------------------------------------------------------------
(* ---- Requests and timer callbacks of the app (SpecApp) ---- *)

\* A step that sets a timer, and a step that runs a callback.
TimerSet == Len(timers') > Len(timers)
CallbackRun == Len(timers') < Len(timers)

\* The callbacks run in the order of the requests, each Delay ms or more
\* after its request and with the code and language of its request; a
\* request with nothing but whitespace sets no timer and leaves
\* currentAnalysis as it is, and so does a callback whose analyzeCode
\* throws.
RequestsAndCallbacks ==
    /\ TimerSet =>
          /\ timers' = Append(timers, [code |-> lastRequest'.code,
                                       language |-> lastRequest'.language,
                                       due |-> now + Delay])
          /\ lastRequest'.code # << >>
          /\ currentAnalysis' = currentAnalysis
    /\ CallbackRun =>
          /\ timers' = Tail(timers)
          /\ timers[1].due <= now
          /\ <<code', language'>> = <<timers[1].code, timers[1].language>>
          /\ pc' = "threw" => currentAnalysis' = currentAnalysis
          /\ pc' = "returned" => currentAnalysis' = returned'
    /\ (~TimerSet /\ ~CallbackRun) => currentAnalysis' = currentAnalysis

\* C29: every request of analyzeCurrentCode with text in the editor takes
\* the code and language of that moment and runs the analysis in a timer
\* callback 500 ms later; the callbacks run in the order of the requests,
\* so that once no timer waits, currentAnalysis is the analysis of the code
\* and language requested last (if that analysis did not throw); a request
\* with nothing but whitespace sets no timer and leaves currentAnalysis as
\* it is, and so does a callback whose analyzeCode throws.
C29_LastRequestWins ==
    [][/\ RequestsAndCallbacks
       /\ (timers' = << >> /\ pc' = "returned") =>
             /\ currentAnalysis' \in 1..Len(heap')
             /\ heap'[currentAnalysis'] \in FreshAnalyses(lastRequest'.code, lastRequest'.language)]_vars

(* ---- The comment ratio and the reward (SpecComments) ---- *)

CommentLinesOf(lang, text) == {k \in 1..Len(text) : IsCommentLine(lang, text[k])}

Penalties(m) == ComplexityPenalty(m) + NestingPenalty(m)

\* C30: no comment line of the text becomes a statement, so that
\* metrics.codeToCommentRatio is metrics.totalStatements (which is also
\* linesOfCode) however many comment lines the text has; the reward of 10
\* is added to the quality score exactly when the number of statements is
\* 4..9, and the score differs from the score without the reward only when
\* a complexity or nesting penalty was subtracted.
C30_RatioIsStatementCount ==
    Done =>
        LET m == Result.metrics
        IN  /\ m.totalStatements = Cardinality(Retained(language, code))
            /\ m.linesOfCode = m.totalStatements
            /\ m.codeToCommentRatio = [num |-> m.totalStatements, den |-> 1]
            /\ m.qualityScore =
                   Clamp(100 - Penalties(m)
                         + (IF m.totalStatements \in 4..9 THEN 10 ELSE 0))
            /\ m.qualityScore # Clamp(100 - Penalties(m)) => Penalties(m) > 0

\* A text with two comment lines and five statements has been analysed: a
\* penalty was subtracted and the reward raised the score.
C30_Witness ==
    /\ Done
    /\ Cardinality(CommentLinesOf(language, code)) = 2
    /\ Result.metrics.totalStatements = 5
    /\ Penalties(Result.metrics) > 0
    /\ Result.metrics.qualityScore = 100 - Penalties(Result.metrics) + 10

=============================================================================
